---- MODULE Spec2Model ----
(***************************************************************************)
(* Model of the entity/relationship normalization pipeline of              *)
(* app/lib/utils.ts: the language detector isLikelyEnglish, the alias      *)
(* resolver normalizeEntityName with its table ENTITY_NAME_MAPPINGS, and   *)
(* the graph normalizer normalizeNetworkData.                              *)
(*                                                                         *)
(* A JavaScript string is modelled as the sequence of its UTF-16 code      *)
(* units (naturals), so that toLowerCase, trim, includes, length and the   *)
(* regular-expression character ranges are computed as the code computes   *)
(* them.  The JavaScript values that are not strings are tuples holding    *)
(* one negative number.                                                    *)
(***************************************************************************)
EXTENDS Integers, Sequences, FiniteSets, TLC

VARIABLES
    entities,       \* normalizeNetworkData: the raw entity records passed in
    relationships,  \* normalizeNetworkData: the raw relationship records passed in
    englishOnly,    \* normalizeNetworkData: the englishOnly flag passed in
    pc,             \* "input" while the caller assembles the arguments, "done" after the call
    out,            \* the value normalizeNetworkData returned
    hub,            \* the mainEntityName the call selected (line 453), '' when none
    name,           \* normalizeEntityName: the argument
    resolved,       \* normalizeEntityName(name), once called
    reresolved,     \* normalizeEntityName(resolved), once called
    rpc,            \* "build", "once" (resolved set), "twice" (reresolved set)
    text,           \* isLikelyEnglish: the argument
    typed,          \* number of characters appended to the initial padding of text
    classified,     \* TRUE once isLikelyEnglish(text) was called
    verdict,        \* the value isLikelyEnglish(text) returned
    route,          \* the network endpoint serving the request: "leader" or "connections"
    response,       \* the response the endpoint returned
    shared,         \* the caller's entity objects that the normalizer's result holds
    renormalized,   \* normalizeNetworkData of the entities and relationships of out
    revision,       \* the scenario endpoint's source: "route" (scenario/route.ts) or "part_003"
    reply,          \* the content of the model's message, null (Undefined) when there is none
    written,        \* number of pieces of text the model has written to reply
    scenario,       \* the response of the scenario endpoint
    calls,          \* the outcomes of the upstream provider calls the request has awaited
    leaderName,     \* the leader the request names
    numConnections, \* connections endpoint: num_connections of the request
    articles,       \* leader endpoint: number of news items still to analyze
    primary,        \* extractConnectionsFromSearch: primaryRelationships
    component,      \* the React component: its source and its handler
    field,          \* the text of the component's input (leaderName / scenarioQuestion)
    isLoading,      \* the component's isLoading state
    error,          \* the component's error state, "null" when there is none
    result          \* the component's networkData / scenarioResult, "null" when there is none

vars == <<entities, relationships, englishOnly, pc, out, hub,
          name, resolved, reresolved, rpc,
          text, typed, classified, verdict,
          route, response, shared, renormalized,
          revision, reply, written, scenario,
          calls, leaderName, numConnections, articles, primary,
          component, field, isLoading, error, result>>

normalizerVars == <<entities, relationships, englishOnly, pc, out, hub>>
resolverVars == <<name, resolved, reresolved, rpc>>
detectorVars == <<text, typed, classified, verdict>>
endpointVars == <<route, response, shared, renormalized>>
scenarioVars == <<revision, reply, written, scenario>>
upstreamVars == <<calls, leaderName, numConnections, articles, primary>>
componentVars == <<component, field, isLoading, error, result>>

----------------------------------------------------------------------------
(* JavaScript values *)

\* undefined: a missing property, Map.get of an absent key
Undefined == <<-1>>
\* Object.prototype.constructor, the function every object literal inherits
ObjectConstructor == <<-2>>
\* Object.prototype, the value of the inherited accessor __proto__
ObjectPrototype == <<-3>>

IsString(v) == \A i \in 1..Len(v) : v[i] >= 0

\* JavaScript truthiness of a string-or-undefined value: '' and undefined are falsy
Truthy(v) == v # Undefined /\ v # <<>>

\* obj.field of a record that may lack the field
Field(obj, f) == IF f \in DOMAIN obj THEN obj[f] ELSE Undefined

\* a || '' 
OrEmpty(v) == IF Truthy(v) THEN v ELSE <<>>

----------------------------------------------------------------------------
(* String operations on code-unit sequences *)

\* String.prototype.toLowerCase on one code unit, for Basic Latin, Greek and
\* Cyrillic capitals (the scripts of the names used here); other units are
\* their own lower case.
toLowerCaseUnit(c) ==
    IF c >= 65 /\ c <= 90 THEN c + 32               \* A-Z
    ELSE IF c >= 913 /\ c <= 939 /\ c # 930 THEN c + 32   \* U+0391-U+03AB
    ELSE IF c >= 1040 /\ c <= 1071 THEN c + 32      \* U+0410-U+042F
    ELSE IF c >= 1024 /\ c <= 1039 THEN c + 80      \* U+0400-U+040F
    ELSE c

toLowerCase(s) == [i \in 1..Len(s) |-> toLowerCaseUnit(s[i])]

\* the WhiteSpace and LineTerminator code units String.prototype.trim strips
IsWhiteSpace(c) ==
    \/ c \in {9, 10, 11, 12, 13, 32, 160, 5760, 8232, 8233, 8239, 8287, 12288, 65279}
    \/ (c >= 8192 /\ c <= 8202)

trim(s) ==
    LET keep == {i \in 1..Len(s) : ~IsWhiteSpace(s[i])}
    IN IF keep = {} THEN <<>>
       ELSE LET first == CHOOSE i \in keep : \A j \in keep : i <= j
                last == CHOOSE i \in keep : \A j \in keep : j <= i
            IN SubSeq(s, first, last)

\* String.prototype.includes
includes(s, sub) ==
    \E i \in 1..(Len(s) - Len(sub) + 1) : SubSeq(s, i, i + Len(sub) - 1) = sub

----------------------------------------------------------------------------
(* ENTITY_NAME_MAPPINGS, utils.ts:50-168: one <<key, value>> pair per line  *)
(* of the object literal, in source order.                                  *)

AliasEntries == <<
    \* utils.ts:52  '\u0432\u043B\u0430\u0434\u0438\u043C\u0438\u0440 \u043F\u0443\u0442\u0438\u043D': 'vladimir putin'
    << <<1074, 1083, 1072, 1076, 1080, 1084, 1080, 1088, 32, 1087, 1091, 1090, 1080, 1085>>,
       <<118, 108, 97, 100, 105, 109, 105, 114, 32, 112, 117, 116, 105, 110>> >>,
    \* utils.ts:53  '\u043F\u0443\u0442\u0438\u043D': 'putin'
    << <<1087, 1091, 1090, 1080, 1085>>,
       <<112, 117, 116, 105, 110>> >>,
    \* utils.ts:54  '\u0440\u043E\u0441\u0441\u0438\u044F': 'russia'
    << <<1088, 1086, 1089, 1089, 1080, 1103>>,
       <<114, 117, 115, 115, 105, 97>> >>,
    \* utils.ts:55  '\u0443\u043A\u0440\u0430\u0438\u043D\u0430': 'ukraine'
    << <<1091, 1082, 1088, 1072, 1080, 1085, 1072>>,
       <<117, 107, 114, 97, 105, 110, 101>> >>,
    \* utils.ts:56  '\u0437\u0435\u043B\u0435\u043D\u0441\u043A\u0438\u0439': 'zelensky'
    << <<1079, 1077, 1083, 1077, 1085, 1089, 1082, 1080, 1081>>,
       <<122, 101, 108, 101, 110, 115, 107, 121>> >>,
    \* utils.ts:57  '\u0432\u043B\u0430\u0434\u0438\u043C\u0438\u0440 \u0437\u0435\u043B\u0435\u043D\u0441\u043A\u0438\u0439': 'volodymyr zelensky'
    << <<1074, 1083, 1072, 1076, 1080, 1084, 1080, 1088, 32, 1079, 1077, 1083, 1077, 1085, 1089, 1082, 1080, 1081>>,
       <<118, 111, 108, 111, 100, 121, 109, 121, 114, 32, 122, 101, 108, 101, 110, 115, 107, 121>> >>,
    \* utils.ts:58  '\u0441\u0448\u0430': 'usa'
    << <<1089, 1096, 1072>>,
       <<117, 115, 97>> >>,
    \* utils.ts:59  '\u0441\u043E\u0435\u0434\u0438\u043D\u0435\u043D\u043D\u044B\u0435 \u0448\u0442\u0430\u0442\u044B': 'united states'
    << <<1089, 1086, 1077, 1076, 1080, 1085, 1077, 1085, 1085, 1099, 1077, 32, 1096, 1090, 1072, 1090, 1099>>,
       <<117, 110, 105, 116, 101, 100, 32, 115, 116, 97, 116, 101, 115>> >>,
    \* utils.ts:60  '\u043A\u0438\u0442\u0430\u0439': 'china'
    << <<1082, 1080, 1090, 1072, 1081>>,
       <<99, 104, 105, 110, 97>> >>,
    \* utils.ts:61  '\u0441\u0438 \u0446\u0437\u0438\u043D\u044C\u043F\u0438\u043D': 'xi jinping'
    << <<1089, 1080, 32, 1094, 1079, 1080, 1085, 1100, 1087, 1080, 1085>>,
       <<120, 105, 32, 106, 105, 110, 112, 105, 110, 103>> >>,
    \* utils.ts:62  '\u0435\u0432\u0440\u043E\u043F\u0430': 'europe'
    << <<1077, 1074, 1088, 1086, 1087, 1072>>,
       <<101, 117, 114, 111, 112, 101>> >>,
    \* utils.ts:63  '\u0435\u0432\u0440\u043E\u043F\u0435\u0439\u0441\u043A\u0438\u0439 \u0441\u043E\u044E\u0437': 'european union'
    << <<1077, 1074, 1088, 1086, 1087, 1077, 1081, 1089, 1082, 1080, 1081, 32, 1089, 1086, 1102, 1079>>,
       <<101, 117, 114, 111, 112, 101, 97, 110, 32, 117, 110, 105, 111, 110>> >>,
    \* utils.ts:64  '\u0435\u0441': 'eu'
    << <<1077, 1089>>,
       <<101, 117>> >>,
    \* utils.ts:65  '\u043D\u0430\u0442\u043E': 'nato'
    << <<1085, 1072, 1090, 1086>>,
       <<110, 97, 116, 111>> >>,
    \* utils.ts:66  '\u0434\u0436\u043E \u0431\u0430\u0439\u0434\u0435\u043D': 'joe biden'
    << <<1076, 1078, 1086, 32, 1073, 1072, 1081, 1076, 1077, 1085>>,
       <<106, 111, 101, 32, 98, 105, 100, 101, 110>> >>,
    \* utils.ts:67  '\u0431\u0430\u0439\u0434\u0435\u043D': 'biden'
    << <<1073, 1072, 1081, 1076, 1077, 1085>>,
       <<98, 105, 100, 101, 110>> >>,
    \* utils.ts:68  '\u043F\u0435\u043D\u0442\u0430\u0433\u043E\u043D': 'pentagon'
    << <<1087, 1077, 1085, 1090, 1072, 1075, 1086, 1085>>,
       <<112, 101, 110, 116, 97, 103, 111, 110>> >>,
    \* utils.ts:69  '\u0431\u0435\u043B\u044B\u0439 \u0434\u043E\u043C': 'white house'
    << <<1073, 1077, 1083, 1099, 1081, 32, 1076, 1086, 1084>>,
       <<119, 104, 105, 116, 101, 32, 104, 111, 117, 115, 101>> >>,
    \* utils.ts:70  '\u043A\u0440\u0435\u043C\u043B\u044C': 'kremlin'
    << <<1082, 1088, 1077, 1084, 1083, 1100>>,
       <<107, 114, 101, 109, 108, 105, 110>> >>,
    \* utils.ts:71  '\u0438\u043D\u0434\u0438\u044F': 'india'
    << <<1080, 1085, 1076, 1080, 1103>>,
       <<105, 110, 100, 105, 97>> >>,
    \* utils.ts:72  '\u043B\u0430\u0432\u0440\u043E\u0432': 'lavrov'
    << <<1083, 1072, 1074, 1088, 1086, 1074>>,
       <<108, 97, 118, 114, 111, 118>> >>,
    \* utils.ts:73  '\u0441\u0435\u0440\u0433\u0435\u0439 \u043B\u0430\u0432\u0440\u043E\u0432': 'sergey lavrov'
    << <<1089, 1077, 1088, 1075, 1077, 1081, 32, 1083, 1072, 1074, 1088, 1086, 1074>>,
       <<115, 101, 114, 103, 101, 121, 32, 108, 97, 118, 114, 111, 118>> >>,
    \* utils.ts:74  '\u043F\u0435\u0441\u043A\u043E\u0432': 'peskov'
    << <<1087, 1077, 1089, 1082, 1086, 1074>>,
       <<112, 101, 115, 107, 111, 118>> >>,
    \* utils.ts:75  '\u0434\u043C\u0438\u0442\u0440\u0438\u0439 \u043F\u0435\u0441\u043A\u043E\u0432': 'dmitry peskov'
    << <<1076, 1084, 1080, 1090, 1088, 1080, 1081, 32, 1087, 1077, 1089, 1082, 1086, 1074>>,
       <<100, 109, 105, 116, 114, 121, 32, 112, 101, 115, 107, 111, 118>> >>,
    \* utils.ts:76  '\u043C\u0437\u0441': 'ministry of foreign affairs'
    << <<1084, 1079, 1089>>,
       <<109, 105, 110, 105, 115, 116, 114, 121, 32, 111, 102, 32, 102, 111, 114, 101, 105, 103, 110, 32, 97, 102, 102, 97, 105, 114, 115>> >>,
    \* utils.ts:79  '\u1F35\u03BD\u03B1 \u1F00\u03BD\u03C4\u03B5\u03C1\u1FF6\u03BD': 'ivanka trump'
    << <<7989, 957, 945, 32, 7936, 957, 964, 949, 961, 8182, 957>>,
       <<105, 118, 97, 110, 107, 97, 32, 116, 114, 117, 109, 112>> >>,
    \* utils.ts:80  '\u03B1\u03BD\u03C4\u0390\u03C4\u03C1\u03BF\u03C5\u03BC\u03C0 jr': 'donald trump jr'
    << <<945, 957, 964, 912, 964, 961, 959, 965, 956, 960, 32, 106, 114>>,
       <<100, 111, 110, 97, 108, 100, 32, 116, 114, 117, 109, 112, 32, 106, 114>> >>,
    \* utils.ts:81  '\u03BC\u03B1\u03C1-\u03B1-\u03BB\u03B1\u03B3\u03BF': 'mar-a-lago'
    << <<956, 945, 961, 45, 945, 45, 955, 945, 947, 959>>,
       <<109, 97, 114, 45, 97, 45, 108, 97, 103, 111>> >>,
    \* utils.ts:82  '\u03C1\u03B1\u03C6-\u03B1-\u03C6\u03B1\u03B2\u03C1\u03B1': 'mar-a-lago'
    << <<961, 945, 966, 45, 945, 45, 966, 945, 946, 961, 945>>,
       <<109, 97, 114, 45, 97, 45, 108, 97, 103, 111>> >>,
    \* utils.ts:83  '\u03BC\u03B1\u03C1 \u03BF \u03BB\u03AD\u03B7\u03BD': 'mar-a-lago'
    << <<956, 945, 961, 32, 959, 32, 955, 941, 951, 957>>,
       <<109, 97, 114, 45, 97, 45, 108, 97, 103, 111>> >>,
    \* utils.ts:84  '\u03BC\u03B1\u03C1 \u03B1 \u03BB\u03B1\u03B3\u03BF': 'mar-a-lago'
    << <<956, 945, 961, 32, 945, 32, 955, 945, 947, 959>>,
       <<109, 97, 114, 45, 97, 45, 108, 97, 103, 111>> >>,
    \* utils.ts:87  '\u0443\u043A\u0440\u0430\u0457\u043D\u0430': 'ukraine'
    << <<1091, 1082, 1088, 1072, 1111, 1085, 1072>>,
       <<117, 107, 114, 97, 105, 110, 101>> >>,
    \* utils.ts:88  '\u0443\u043A\u0440\u0430\u0457\u043Da': 'ukraine'
    << <<1091, 1082, 1088, 1072, 1111, 1085, 97>>,
       <<117, 107, 114, 97, 105, 110, 101>> >>,
    \* utils.ts:89  '\u0432\u0435\u0434\u0449\u0438\u043C \u0434\u0435\u043D\u0438\u0441\u0435\u043D\u043A\u043E': 'vadym denysenko'
    << <<1074, 1077, 1076, 1097, 1080, 1084, 32, 1076, 1077, 1085, 1080, 1089, 1077, 1085, 1082, 1086>>,
       <<118, 97, 100, 121, 109, 32, 100, 101, 110, 121, 115, 101, 110, 107, 111>> >>,
    \* utils.ts:90  '\u0434\u0435\u043D\u0438\u0441\u0435\u043D\u043A\u043E': 'denysenko'
    << <<1076, 1077, 1085, 1080, 1089, 1077, 1085, 1082, 1086>>,
       <<100, 101, 110, 121, 115, 101, 110, 107, 111>> >>,
    \* utils.ts:91  '\u0432\u0430\u0434\u0438\u043C \u0434\u0435\u043D\u0438\u0441\u0435\u043D\u043A\u043E': 'vadym denysenko'
    << <<1074, 1072, 1076, 1080, 1084, 32, 1076, 1077, 1085, 1080, 1089, 1077, 1085, 1082, 1086>>,
       <<118, 97, 100, 121, 109, 32, 100, 101, 110, 121, 115, 101, 110, 107, 111>> >>,
    \* utils.ts:92  '\u0432\u0430\u0434\u0438\u043C': 'vadym'
    << <<1074, 1072, 1076, 1080, 1084>>,
       <<118, 97, 100, 121, 109>> >>,
    \* utils.ts:93  '\u0442\u0440\u0430\u043C\u043F': 'trump'
    << <<1090, 1088, 1072, 1084, 1087>>,
       <<116, 114, 117, 109, 112>> >>,
    \* utils.ts:94  '\u0442\u0440a\u043C\u043F': 'trump'
    << <<1090, 1088, 97, 1084, 1087>>,
       <<116, 114, 117, 109, 112>> >>,
    \* utils.ts:95  '\u0430\u043C\u0435\u0440\u0438\u043A\u0430': 'america'
    << <<1072, 1084, 1077, 1088, 1080, 1082, 1072>>,
       <<97, 109, 101, 114, 105, 99, 97>> >>,
    \* utils.ts:96  '\u0430\u043C\u0435\u0440\u0438\u043A\u0430\u043D\u0441\u043A\u0438\u0435 \u043F\u0440\u0435\u0437\u0438\u0434\u0435\u043D\u0442\u044B': 'american presidents'
    << <<1072, 1084, 1077, 1088, 1080, 1082, 1072, 1085, 1089, 1082, 1080, 1077, 32, 1087, 1088, 1077, 1079, 1080, 1076, 1077, 1085, 1090, 1099>>,
       <<97, 109, 101, 114, 105, 99, 97, 110, 32, 112, 114, 101, 115, 105, 100, 101, 110, 116, 115>> >>,
    \* utils.ts:97  '\u0431\u0456\u043B\u0438\u0439 \u0434\u0456\u043C': 'white house'
    << <<1073, 1110, 1083, 1080, 1081, 32, 1076, 1110, 1084>>,
       <<119, 104, 105, 116, 101, 32, 104, 111, 117, 115, 101>> >>,
    \* utils.ts:98  '\u0443\u043D\u0456\u0430\u043D': 'unian'
    << <<1091, 1085, 1110, 1072, 1085>>,
       <<117, 110, 105, 97, 110>> >>,
    \* utils.ts:99  '\u0433\u0456\u0442\u043B\u0435\u0440': 'hitler'
    << <<1075, 1110, 1090, 1083, 1077, 1088>>,
       <<104, 105, 116, 108, 101, 114>> >>,
    \* utils.ts:102  '\u666E\u4EAC': 'putin'
    << <<26222, 20140>>,
       <<112, 117, 116, 105, 110>> >>,
    \* utils.ts:103  '\u963F\u8428\u5FB7': 'assad'
    << <<38463, 33832, 24503>>,
       <<97, 115, 115, 97, 100>> >>,
    \* utils.ts:104  '\u6CFD\u8FDE\u65AF\u57FA': 'zelensky'
    << <<27901, 36830, 26031, 22522>>,
       <<122, 101, 108, 101, 110, 115, 107, 121>> >>,
    \* utils.ts:105  '\u062A\u0631\u0627\u0645\u0628': 'trump'
    << <<1578, 1585, 1575, 1605, 1576>>,
       <<116, 114, 117, 109, 112>> >>,
    \* utils.ts:106  '\u0628\u0648\u062A\u064A\u0646': 'putin'
    << <<1576, 1608, 1578, 1610, 1606>>,
       <<112, 117, 116, 105, 110>> >>,
    \* utils.ts:107  '\u091F\u094D\u0930\u092E\u094D\u092A': 'trump'
    << <<2335, 2381, 2352, 2350, 2381, 2346>>,
       <<116, 114, 117, 109, 112>> >>,
    \* utils.ts:108  '\u091F\u094D\u0930\u0902\u092A': 'trump'
    << <<2335, 2381, 2352, 2306, 2346>>,
       <<116, 114, 117, 109, 112>> >>,
    \* utils.ts:109  '\u099F\u09CD\u09B0\u09BE\u09AE\u09CD\u09AA': 'trump'
    << <<2463, 2509, 2480, 2494, 2478, 2509, 2474>>,
       <<116, 114, 117, 109, 112>> >>,
    \* utils.ts:110  '\u09AA\u09C1\u09A4\u09BF\u09A8': 'putin'
    << <<2474, 2497, 2468, 2495, 2472>>,
       <<112, 117, 116, 105, 110>> >>,
    \* utils.ts:113  'ameri\u010Dkih predsednika': 'american presidents'
    << <<97, 109, 101, 114, 105, 269, 107, 105, 104, 32, 112, 114, 101, 100, 115, 101, 100, 110, 105, 107, 97>>,
       <<97, 109, 101, 114, 105, 99, 97, 110, 32, 112, 114, 101, 115, 105, 100, 101, 110, 116, 115>> >>,
    \* utils.ts:114  'kremlj': 'kremlin'
    << <<107, 114, 101, 109, 108, 106>>,
       <<107, 114, 101, 109, 108, 105, 110>> >>,
    \* utils.ts:117  '\uD2B8\uB7FC\uD504 \uD589\uC815\uBD80': 'trump administration'
    << <<53944, 47100, 54532, 32, 54665, 51221, 48512>>,
       <<116, 114, 117, 109, 112, 32, 97, 100, 109, 105, 110, 105, 115, 116, 114, 97, 116, 105, 111, 110>> >>,
    \* utils.ts:118  '\uD2B8\uB7FC\uD504': 'donald trump'
    << <<53944, 47100, 54532>>,
       <<100, 111, 110, 97, 108, 100, 32, 116, 114, 117, 109, 112>> >>,
    \* utils.ts:119  '\uB3C4\uB110\uB4DC \uD2B8\uB7FC\uD504': 'donald trump'
    << <<46020, 45328, 46300, 32, 53944, 47100, 54532>>,
       <<100, 111, 110, 97, 108, 100, 32, 116, 114, 117, 109, 112>> >>,
    \* utils.ts:120  '\uC870 \uBC14\uC774\uB4E0': 'joe biden'
    << <<51312, 32, 48148, 51060, 46304>>,
       <<106, 111, 101, 32, 98, 105, 100, 101, 110>> >>,
    \* utils.ts:121  '\uBC14\uC774\uB4E0': 'biden'
    << <<48148, 51060, 46304>>,
       <<98, 105, 100, 101, 110>> >>,
    \* utils.ts:122  '\uAE40\uC815\uC740': 'kim jong-un'
    << <<44608, 51221, 51008>>,
       <<107, 105, 109, 32, 106, 111, 110, 103, 45, 117, 110>> >>,
    \* utils.ts:123  '\uBE14\uB77C\uB514\uBBF8\uB974 \uD478\uD2F4': 'vladimir putin'
    << <<48660, 46972, 46356, 48120, 47476, 32, 54392, 54004>>,
       <<118, 108, 97, 100, 105, 109, 105, 114, 32, 112, 117, 116, 105, 110>> >>,
    \* utils.ts:124  '\uD478\uD2F4': 'putin'
    << <<54392, 54004>>,
       <<112, 117, 116, 105, 110>> >>,
    \* utils.ts:125  '\uC2DC\uC9C4\uD551': 'xi jinping'
    << <<49884, 51652, 54609>>,
       <<120, 105, 32, 106, 105, 110, 112, 105, 110, 103>> >>,
    \* utils.ts:126  '\uBB38\uC7AC\uC778': 'moon jae-in'
    << <<47928, 51116, 51064>>,
       <<109, 111, 111, 110, 32, 106, 97, 101, 45, 105, 110>> >>,
    \* utils.ts:127  '\uC724\uC11D\uC5F4': 'yoon suk-yeol'
    << <<50980, 49437, 50676>>,
       <<121, 111, 111, 110, 32, 115, 117, 107, 45, 121, 101, 111, 108>> >>,
    \* utils.ts:130  'kim jong un': 'kim jong-un'
    << <<107, 105, 109, 32, 106, 111, 110, 103, 32, 117, 110>>,
       <<107, 105, 109, 32, 106, 111, 110, 103, 45, 117, 110>> >>,
    \* utils.ts:131  'kim jong-un': 'kim jong-un'
    << <<107, 105, 109, 32, 106, 111, 110, 103, 45, 117, 110>>,
       <<107, 105, 109, 32, 106, 111, 110, 103, 45, 117, 110>> >>,
    \* utils.ts:132  'xi': 'xi jinping'
    << <<120, 105>>,
       <<120, 105, 32, 106, 105, 110, 112, 105, 110, 103>> >>,
    \* utils.ts:133  'biden': 'joe biden'
    << <<98, 105, 100, 101, 110>>,
       <<106, 111, 101, 32, 98, 105, 100, 101, 110>> >>,
    \* utils.ts:134  'zelensky': 'volodymyr zelensky'
    << <<122, 101, 108, 101, 110, 115, 107, 121>>,
       <<118, 111, 108, 111, 100, 121, 109, 121, 114, 32, 122, 101, 108, 101, 110, 115, 107, 121>> >>,
    \* utils.ts:135  'zelenskyy': 'volodymyr zelensky'
    << <<122, 101, 108, 101, 110, 115, 107, 121, 121>>,
       <<118, 111, 108, 111, 100, 121, 109, 121, 114, 32, 122, 101, 108, 101, 110, 115, 107, 121>> >>,
    \* utils.ts:136  'volodymyr zelenskyy': 'volodymyr zelensky'
    << <<118, 111, 108, 111, 100, 121, 109, 121, 114, 32, 122, 101, 108, 101, 110, 115, 107, 121, 121>>,
       <<118, 111, 108, 111, 100, 121, 109, 121, 114, 32, 122, 101, 108, 101, 110, 115, 107, 121>> >>,
    \* utils.ts:137  'u.s.': 'usa'
    << <<117, 46, 115, 46>>,
       <<117, 115, 97>> >>,
    \* utils.ts:138  'u.s.a.': 'usa'
    << <<117, 46, 115, 46, 97, 46>>,
       <<117, 115, 97>> >>,
    \* utils.ts:139  'united states': 'usa'
    << <<117, 110, 105, 116, 101, 100, 32, 115, 116, 97, 116, 101, 115>>,
       <<117, 115, 97>> >>,
    \* utils.ts:140  'united states of america': 'usa'
    << <<117, 110, 105, 116, 101, 100, 32, 115, 116, 97, 116, 101, 115, 32, 111, 102, 32, 97, 109, 101, 114, 105, 99, 97>>,
       <<117, 115, 97>> >>,
    \* utils.ts:141  'america': 'usa'
    << <<97, 109, 101, 114, 105, 99, 97>>,
       <<117, 115, 97>> >>,
    \* utils.ts:142  'dprk': 'north korea'
    << <<100, 112, 114, 107>>,
       <<110, 111, 114, 116, 104, 32, 107, 111, 114, 101, 97>> >>,
    \* utils.ts:143  'rok': 'south korea'
    << <<114, 111, 107>>,
       <<115, 111, 117, 116, 104, 32, 107, 111, 114, 101, 97>> >>,
    \* utils.ts:144  'roc': 'taiwan'
    << <<114, 111, 99>>,
       <<116, 97, 105, 119, 97, 110>> >>,
    \* utils.ts:145  'prc': 'china'
    << <<112, 114, 99>>,
       <<99, 104, 105, 110, 97>> >>,
    \* utils.ts:146  'grok ai': 'grok ai'
    << <<103, 114, 111, 107, 32, 97, 105>>,
       <<103, 114, 111, 107, 32, 97, 105>> >>,
    \* utils.ts:147  'tramp': 'trump'
    << <<116, 114, 97, 109, 112>>,
       <<116, 114, 117, 109, 112>> >>,
    \* utils.ts:150  'donald trump': 'donald trump'
    << <<100, 111, 110, 97, 108, 100, 32, 116, 114, 117, 109, 112>>,
       <<100, 111, 110, 97, 108, 100, 32, 116, 114, 117, 109, 112>> >>,
    \* utils.ts:151  'trumps': 'donald trump'
    << <<116, 114, 117, 109, 112, 115>>,
       <<100, 111, 110, 97, 108, 100, 32, 116, 114, 117, 109, 112>> >>,
    \* utils.ts:154  'vladimir putin': 'vladimir putin'
    << <<118, 108, 97, 100, 105, 109, 105, 114, 32, 112, 117, 116, 105, 110>>,
       <<118, 108, 97, 100, 105, 109, 105, 114, 32, 112, 117, 116, 105, 110>> >>,
    \* utils.ts:155  'v. putin': 'vladimir putin'
    << <<118, 46, 32, 112, 117, 116, 105, 110>>,
       <<118, 108, 97, 100, 105, 109, 105, 114, 32, 112, 117, 116, 105, 110>> >>,
    \* utils.ts:156  'vv putin': 'vladimir putin'
    << <<118, 118, 32, 112, 117, 116, 105, 110>>,
       <<118, 108, 97, 100, 105, 109, 105, 114, 32, 112, 117, 116, 105, 110>> >>,
    \* utils.ts:159  'volodymyr zelensky': 'volodymyr zelensky'
    << <<118, 111, 108, 111, 100, 121, 109, 121, 114, 32, 122, 101, 108, 101, 110, 115, 107, 121>>,
       <<118, 111, 108, 111, 100, 121, 109, 121, 114, 32, 122, 101, 108, 101, 110, 115, 107, 121>> >>,
    \* utils.ts:161  'president biden': 'joe biden'
    << <<112, 114, 101, 115, 105, 100, 101, 110, 116, 32, 98, 105, 100, 101, 110>>,
       <<106, 111, 101, 32, 98, 105, 100, 101, 110>> >>,
    \* utils.ts:163  'president xi': 'xi jinping'
    << <<112, 114, 101, 115, 105, 100, 101, 110, 116, 32, 120, 105>>,
       <<120, 105, 32, 106, 105, 110, 112, 105, 110, 103>> >>,
    \* utils.ts:164  'melania trump': 'melania trump'
    << <<109, 101, 108, 97, 110, 105, 97, 32, 116, 114, 117, 109, 112>>,
       <<109, 101, 108, 97, 110, 105, 97, 32, 116, 114, 117, 109, 112>> >>,
    \* utils.ts:165  'elon musk': 'elon musk'
    << <<101, 108, 111, 110, 32, 109, 117, 115, 107>>,
       <<101, 108, 111, 110, 32, 109, 117, 115, 107>> >>,
    \* utils.ts:166  'bettina anderson': 'bettina anderson'
    << <<98, 101, 116, 116, 105, 110, 97, 32, 97, 110, 100, 101, 114, 115, 111, 110>>,
       <<98, 101, 116, 116, 105, 110, 97, 32, 97, 110, 100, 101, 114, 115, 111, 110>> >>,
    \* utils.ts:167  'democrat': 'democrat'
    << <<100, 101, 109, 111, 99, 114, 97, 116>>,
       <<100, 101, 109, 111, 99, 114, 97, 116>> >>
>>

AliasKeys == {AliasEntries[i][1] : i \in 1..Len(AliasEntries)}
AliasValues == {AliasEntries[i][2] : i \in 1..Len(AliasEntries)}

\* The object literal as a function of its own keys (a later duplicate key
\* would win, as in JavaScript).
OwnMappings ==
    [k \in AliasKeys |->
        LET last == CHOOSE i \in 1..Len(AliasEntries) :
                        /\ AliasEntries[i][1] = k
                        /\ \A j \in 1..Len(AliasEntries) : AliasEntries[j][1] = k => j <= i
        IN AliasEntries[last][2]]

str_constructor == <<99, 111, 110, 115, 116, 114, 117, 99, 116, 111, 114>>  \* 'constructor'
str_proto == <<95, 95, 112, 114, 111, 116, 111, 95, 95>>  \* '__proto__'

\* ENTITY_NAME_MAPPINGS[key]: property lookup on a plain object literal.  An
\* own key gives its value; a key the literal does not own is looked up on
\* Object.prototype, whose all-lower-case properties are 'constructor' and
\* '__proto__'; every other key gives undefined.
ENTITY_NAME_MAPPINGS(key) ==
    IF key \in AliasKeys THEN OwnMappings[key]
    ELSE IF key = str_constructor THEN ObjectConstructor
    ELSE IF key = str_proto THEN ObjectPrototype
    ELSE Undefined

----------------------------------------------------------------------------
(* isLikelyEnglish, utils.ts:174-198 *)

\* (text.match(/[lo-hi]/g) || []).length, the pattern with the g flag: the
\* number of characters in the range
matchLength_everyMatch(t, lo, hi) ==
    Cardinality({i \in 1..Len(t) : t[i] >= lo /\ t[i] <= hi})

\* (text.match(/[lo-hi]/) || []).length: the pattern has no g flag, so match
\* returns the first match alone (an array of length 1) or null.
matchLength(t, lo, hi) ==
    IF \E i \in 1..Len(t) : t[i] >= lo /\ t[i] <= hi THEN 1 ELSE 0

\* japanesePattern: an alternation of three ranges, again without g
japaneseMatchLength(t) ==
    IF \E i \in 1..Len(t) :
           \/ (t[i] >= 12352 /\ t[i] <= 12447)    \* U+3040-U+309F
           \/ (t[i] >= 12448 /\ t[i] <= 12543)    \* U+30A0-U+30FF
           \/ (t[i] >= 19968 /\ t[i] <= 40879)    \* U+4E00-U+9FAF
    THEN 1 ELSE 0

nonLatinCount(t) ==
      matchLength(t, 1024, 1279)      \* cyrillicPattern U+0400-U+04FF
    + matchLength(t, 19968, 40959)    \* chinesePattern  U+4E00-U+9FFF
    + matchLength(t, 1536, 1791)      \* arabicPattern   U+0600-U+06FF
    + matchLength(t, 44032, 55215)    \* koreanPattern   U+AC00-U+D7AF
    + matchLength(t, 880, 1023)       \* greekPattern    U+0370-U+03FF
    + matchLength(t, 3584, 3711)      \* thaiPattern     U+0E00-U+0E7F
    + japaneseMatchLength(t)

\* nonLatinCount < text.length * 0.15.  The count is at most 7, and for every
\* length the double product length * 0.15 rounds to the exact value when that
\* is an integer, so the comparison of doubles is the comparison of
\* count * 100 with length * 15.
isLikelyEnglish(t) ==
    IF ~Truthy(t) THEN TRUE
    ELSE nonLatinCount(t) * 100 < Len(t) * 15

----------------------------------------------------------------------------
(* normalizeEntityName, utils.ts:210-244 *)

str_putin == <<112, 117, 116, 105, 110>>  \* 'putin'
str_vladimir_putin == <<118, 108, 97, 100, 105, 109, 105, 114, 32, 112, 117, 116, 105, 110>>  \* 'vladimir putin'
str_trump == <<116, 114, 117, 109, 112>>  \* 'trump'
str_ivanka == <<105, 118, 97, 110, 107, 97>>  \* 'ivanka'
str_junior == <<106, 117, 110, 105, 111, 114>>  \* 'junior'
str_jr == <<106, 114>>  \* 'jr'
str_donald_trump == <<100, 111, 110, 97, 108, 100, 32, 116, 114, 117, 109, 112>>  \* 'donald trump'
str_biden == <<98, 105, 100, 101, 110>>  \* 'biden'
str_bidden == <<98, 105, 100, 100, 101, 110>>  \* 'bidden'
str_hunter == <<104, 117, 110, 116, 101, 114>>  \* 'hunter'
str_joe_biden == <<106, 111, 101, 32, 98, 105, 100, 101, 110>>  \* 'joe biden'
str_zelensky == <<122, 101, 108, 101, 110, 115, 107, 121>>  \* 'zelensky'
str_zelenskyy == <<122, 101, 108, 101, 110, 115, 107, 121, 121>>  \* 'zelenskyy'
str_volodymyr_zelensky == <<118, 111, 108, 111, 100, 121, 109, 121, 114, 32, 122, 101, 108, 101, 110, 115, 107, 121>>  \* 'volodymyr zelensky'
str_jinping == <<106, 105, 110, 112, 105, 110, 103>>  \* 'jinping'
str_xi == <<120, 105>>  \* 'xi'
str_xi_jinping == <<120, 105, 32, 106, 105, 110, 112, 105, 110, 103>>  \* 'xi jinping'

\* lines 220-243: the substring heuristics, applied to lowerName
substringHeuristics(lowerName) ==
    IF includes(lowerName, str_putin) THEN str_vladimir_putin
    ELSE IF /\ includes(lowerName, str_trump)
            /\ ~includes(lowerName, str_ivanka)
            /\ ~includes(lowerName, str_junior)
            /\ ~includes(lowerName, str_jr)
         THEN str_donald_trump
    ELSE IF /\ (includes(lowerName, str_biden) \/ includes(lowerName, str_bidden))
            /\ ~includes(lowerName, str_hunter)
         THEN str_joe_biden
    ELSE IF includes(lowerName, str_zelensky) \/ includes(lowerName, str_zelenskyy)
         THEN str_volodymyr_zelensky
    ELSE IF \/ includes(lowerName, str_jinping)
            \/ (includes(lowerName, str_xi) /\ Len(lowerName) < 15)
         THEN str_xi_jinping
    ELSE lowerName

\* A TypeError raised by name.toLowerCase() when name is not a string
TypeError == <<-4>>

normalizeEntityName(n) ==
    IF ~Truthy(n) THEN <<>>
    ELSE IF ~IsString(n) THEN TypeError
    ELSE LET lowerName == trim(toLowerCase(n))
             mapped == ENTITY_NAME_MAPPINGS(lowerName)
         IN IF mapped # Undefined THEN mapped      \* own values are non-empty strings: truthy
            ELSE substringHeuristics(lowerName)

----------------------------------------------------------------------------
(* JavaScript Map: the sequence of its <<key, value>> entries in insertion *)
(* order.  set of a present key replaces the value and keeps the position. *)

MapHas(m, k) == \E i \in 1..Len(m) : m[i][1] = k

MapGet(m, k) ==
    IF MapHas(m, k) THEN m[CHOOSE i \in 1..Len(m) : m[i][1] = k][2] ELSE Undefined

MapSet(m, k, v) ==
    IF MapHas(m, k)
    THEN [i \in 1..Len(m) |-> IF m[i][1] = k THEN <<k, v>> ELSE m[i]]
    ELSE Append(m, <<k, v>>)

MapKeys(m) == [i \in 1..Len(m) |-> m[i][1]]
MapValues(m) == [i \in 1..Len(m) |-> m[i][2]]

\* [...new Set(list)]: the distinct elements in order of first occurrence
uniqueInOrder(list) ==
    LET seen[n \in 0..Len(list)] ==
            IF n = 0 THEN <<>>
            ELSE IF \E i \in 1..Len(seen[n - 1]) : seen[n - 1][i] = list[n]
                 THEN seen[n - 1]
                 ELSE Append(seen[n - 1], list[n])
    IN seen[Len(list)]

----------------------------------------------------------------------------
(* normalizeNetworkData, utils.ts:254-493 *)

\* x.toLowerCase().trim()
lowerTrim(v) == trim(toLowerCase(v))

\* entityMap.set(original, normalized); entityMap.set(normalized, normalized);
\* if (!isLikelyEnglish(original)) nonEnglishNames.add(original)
recordName(st, original) ==
    LET normalized == normalizeEntityName(original)
    IN [entityMap |-> MapSet(MapSet(st.entityMap, original, normalized),
                             normalized, normalized),
        nonEnglishNames |-> IF ~isLikelyEnglish(original)
                            THEN st.nonEnglishNames \cup {original}
                            ELSE st.nonEnglishNames]

\* lines 269-286: the first pass over one raw entity
firstPassEntity(st, entity) ==
    IF ~Truthy(Field(entity, "name")) THEN st
    ELSE recordName(st, lowerTrim(entity.name))

\* lines 293-302 and 304-313: a relationship end that is not yet a key of entityMap
firstPassEndpoint(st, endpoint) ==
    IF Truthy(endpoint) /\ ~MapHas(st.entityMap, endpoint)
    THEN recordName(st, endpoint)
    ELSE st

\* lines 289-314: the first pass over one raw relationship
firstPassRelationship(st, rel) ==
    LET source == lowerTrim(OrEmpty(Field(rel, "source")))
        target == lowerTrim(OrEmpty(Field(rel, "target")))
    IN firstPassEndpoint(firstPassEndpoint(st, source), target)

\* Step 1, lines 264-314: [entityMap, nonEnglishNames]
nameMapping(ents, rels) ==
    LET afterEntities[n \in 0..Len(ents)] ==
            IF n = 0 THEN [entityMap |-> <<>>, nonEnglishNames |-> {}]
            ELSE firstPassEntity(afterEntities[n - 1], ents[n])
        afterRelationships[n \in 0..Len(rels)] ==
            IF n = 0 THEN afterEntities[Len(ents)]
            ELSE firstPassRelationship(afterRelationships[n - 1], rels[n])
    IN afterRelationships[Len(rels)]

\* {...entity, name: normalizedName, original_names: [originalName]}
spreadEntity(entity, normalizedName, originalName) ==
    [f \in DOMAIN entity \cup {"name", "original_names"} |->
        IF f = "name" THEN normalizedName
        ELSE IF f = "original_names" THEN <<originalName>>
        ELSE entity[f]]

\* lines 333-334: existingEntity.original_names = [...new Set([...old, originalName])]
mergeOriginalName(existingEntity, originalName) ==
    LET old == IF "original_names" \in DOMAIN existingEntity
               THEN existingEntity.original_names ELSE <<>>
    IN [f \in DOMAIN existingEntity \cup {"original_names"} |->
           IF f = "original_names" THEN uniqueInOrder(Append(old, originalName))
           ELSE existingEntity[f]]

\* materializeEntity without the merge of lines 332-334: every raw entity
\* becomes an entry of its own
materializeEntity_noMerge(nm, flag, normalizedEntities, entity) ==
    IF ~Truthy(Field(entity, "name")) THEN normalizedEntities
    ELSE LET originalName == lowerTrim(entity.name)
             normalizedName == MapGet(nm.entityMap, originalName)
         IN IF flag /\ originalName \in nm.nonEnglishNames THEN normalizedEntities
            ELSE Append(normalizedEntities,
                        <<normalizedName, spreadEntity(entity, normalizedName, originalName)>>)

\* lines 320-342: one raw entity of step 2; nm is the result of step 1
materializeEntity(nm, flag, normalizedEntities, entity) ==
    IF ~Truthy(Field(entity, "name")) THEN normalizedEntities
    ELSE LET originalName == lowerTrim(entity.name)
             normalizedName == MapGet(nm.entityMap, originalName)
         IN IF flag /\ originalName \in nm.nonEnglishNames THEN normalizedEntities
            ELSE IF MapHas(normalizedEntities, normalizedName)
                 THEN MapSet(normalizedEntities, normalizedName,
                             mergeOriginalName(MapGet(normalizedEntities, normalizedName),
                                               originalName))
                 ELSE MapSet(normalizedEntities, normalizedName,
                             spreadEntity(entity, normalizedName, originalName))

\* lines 363-368 and 373-378: the entity a relationship end implies
impliedEntity(normalizedName, originalName) ==
    [name |-> normalizedName, type |-> "person", role |-> "Unknown",
     original_names |-> <<originalName>>]

\* the englishOnly skip testing the source alone
skippedAsNonEnglish_sourceOnly(nm, flag, sourceOriginal, targetOriginal) ==
    flag /\ sourceOriginal \in nm.nonEnglishNames

\* lines 354-359 and 397-401: the englishOnly skip of a relationship
skippedAsNonEnglish(nm, flag, sourceOriginal, targetOriginal) ==
    flag /\ (sourceOriginal \in nm.nonEnglishNames \/ targetOriginal \in nm.nonEnglishNames)

\* lines 345-380: one raw relationship of step 3
materializeFromRelationship(nm, flag, normalizedEntities, rel) ==
    LET sourceOriginal == lowerTrim(OrEmpty(Field(rel, "source")))
        targetOriginal == lowerTrim(OrEmpty(Field(rel, "target")))
        sourceNormalized == MapGet(nm.entityMap, sourceOriginal)
        targetNormalized == MapGet(nm.entityMap, targetOriginal)
    IN IF ~Truthy(sourceOriginal) \/ ~Truthy(targetOriginal) THEN normalizedEntities
       ELSE IF skippedAsNonEnglish(nm, flag, sourceOriginal, targetOriginal)
            THEN normalizedEntities
       ELSE LET withSource ==
                    IF ~MapHas(normalizedEntities, sourceNormalized)
                    THEN MapSet(normalizedEntities, sourceNormalized,
                                impliedEntity(sourceNormalized, sourceOriginal))
                    ELSE normalizedEntities
            IN IF ~MapHas(withSource, targetNormalized)
               THEN MapSet(withSource, targetNormalized,
                           impliedEntity(targetNormalized, targetOriginal))
               ELSE withSource

\* Steps 2 and 3, lines 316-380: the Map normalizedEntities
materializedEntities(nm, flag, ents, rels) ==
    LET afterEntities[n \in 0..Len(ents)] ==
            IF n = 0 THEN <<>>
            ELSE materializeEntity(nm, flag, afterEntities[n - 1], ents[n])
        afterRelationships[n \in 0..Len(rels)] ==
            IF n = 0 THEN afterEntities[Len(ents)]
            ELSE materializeFromRelationship(nm, flag, afterRelationships[n - 1], rels[n])
    IN afterRelationships[Len(rels)]

\* the spread written last, {source, target, ..., ...rel}: the raw fields win
spreadRelationship_rawFieldsWin(rel, sourceNormalized, targetNormalized, sourceOriginal, targetOriginal) ==
    [f \in DOMAIN rel \cup {"source", "target", "source_original", "target_original"} |->
        IF f \in DOMAIN rel THEN rel[f]
        ELSE IF f = "source" THEN sourceNormalized
        ELSE IF f = "target" THEN targetNormalized
        ELSE IF f = "source_original" THEN sourceOriginal
        ELSE targetOriginal]

\* {...rel, source, target, source_original, target_original}
spreadRelationship(rel, sourceNormalized, targetNormalized, sourceOriginal, targetOriginal) ==
    [f \in DOMAIN rel \cup {"source", "target", "source_original", "target_original"} |->
        IF f = "source" THEN sourceNormalized
        ELSE IF f = "target" THEN targetNormalized
        ELSE IF f = "source_original" THEN sourceOriginal
        ELSE IF f = "target_original" THEN targetOriginal
        ELSE rel[f]]

\* lines 384-415: the map callback of step 4; null is the empty sequence and
\* a record is the one-element sequence holding it, so that the filter of
\* line 416 is concatenation
normalizeRelationship(nm, flag, normalizedEntities, rel) ==
    LET sourceOriginal == lowerTrim(OrEmpty(Field(rel, "source")))
        targetOriginal == lowerTrim(OrEmpty(Field(rel, "target")))
        sourceNormalized == MapGet(nm.entityMap, sourceOriginal)
        targetNormalized == MapGet(nm.entityMap, targetOriginal)
    IN IF ~Truthy(sourceOriginal) \/ ~Truthy(targetOriginal) THEN <<>>
       ELSE IF skippedAsNonEnglish(nm, flag, sourceOriginal, targetOriginal) THEN <<>>
       ELSE IF \/ ~MapHas(normalizedEntities, sourceNormalized)
               \/ ~MapHas(normalizedEntities, targetNormalized)
            THEN <<>>
       ELSE << spreadRelationship(rel, sourceNormalized, targetNormalized,
                                  sourceOriginal, targetOriginal) >>

\* the survivors collected newest first
realRelationships_newestFirst(nm, flag, normalizedEntities, rels) ==
    LET kept[n \in 0..Len(rels)] ==
            IF n = 0 THEN <<>>
            ELSE normalizeRelationship(nm, flag, normalizedEntities, rels[n]) \o kept[n - 1]
    IN kept[Len(rels)]

\* Step 4, lines 383-416: the real relationships that survive
realRelationships(nm, flag, normalizedEntities, rels) ==
    LET kept[n \in 0..Len(rels)] ==
            IF n = 0 THEN <<>>
            ELSE kept[n - 1] \o normalizeRelationship(nm, flag, normalizedEntities, rels[n])
    IN kept[Len(rels)]

\* lines 420-424
connectedEntities(real) ==
    {real[i].source : i \in 1..Len(real)} \cup {real[i].target : i \in 1..Len(real)}

\* (entityConnectionCounts.get(k) || 0) + 1
increment(counts, k) ==
    MapSet(counts, k, (IF MapHas(counts, k) THEN MapGet(counts, k) ELSE 0) + 1)

\* lines 431-435: the Map entityConnectionCounts
entityConnectionCounts(real) ==
    LET counts[n \in 0..Len(real)] ==
            IF n = 0 THEN <<>>
            ELSE increment(increment(counts[n - 1], real[n].source), real[n].target)
    IN counts[Len(real)]

\* line 440 with >= for >: the last entry of the count Map with the greatest
\* count
mostConnected_lastWins(counts) ==
    LET best[n \in 0..Len(counts)] ==
            IF n = 0 THEN [maxConnections |-> 0, mainEntityName |-> <<>>]
            ELSE IF counts[n][2] >= best[n - 1].maxConnections
                 THEN [maxConnections |-> counts[n][2], mainEntityName |-> counts[n][1]]
                 ELSE best[n - 1]
    IN best[Len(counts)]

\* lines 438-444: the first entry of the count Map with the greatest count
mostConnected(counts) ==
    LET best[n \in 0..Len(counts)] ==
            IF n = 0 THEN [maxConnections |-> 0, mainEntityName |-> <<>>]
            ELSE IF counts[n][2] > best[n - 1].maxConnections
                 THEN [maxConnections |-> counts[n][2], mainEntityName |-> counts[n][1]]
                 ELSE best[n - 1]
    IN best[Len(counts)]

\* lines 437-449: mainEntityName, '' when there is none
mainEntityName(normalizedEntities, real) ==
    LET byCount == mostConnected(entityConnectionCounts(real)).mainEntityName
    IN IF ~Truthy(byCount) /\ Len(normalizedEntities) > 0
       THEN MapKeys(normalizedEntities)[1]
       ELSE byCount

\* lines 451-454: mainEntity is an entity object (not null, not undefined)
hasMainEntity(normalizedEntities, main) ==
    Truthy(main) /\ MapHas(normalizedEntities, main)

\* the fallback relationship with its ends exchanged
fallbackRelationship_swapped(main, entityName) ==
    [source |-> entityName, target |-> main, type |-> "connection",
     sentiment |-> "neutral", strength |-> 1, description |-> "Connected entities",
     is_fallback |-> TRUE]

\* lines 464-472
fallbackRelationship(main, entityName) ==
    [source |-> main, target |-> entityName, type |-> "connection",
     sentiment |-> "neutral", strength |-> 1, description |-> "Connected entities",
     is_fallback |-> TRUE]

\* line 459 without the negation of connectedEntities.has
isOrphan_missingNegation(connected, normalizedEntities, main, entityName) ==
    /\ entityName \in connected
    /\ hasMainEntity(normalizedEntities, main)
    /\ entityName # main

\* line 459: the test that makes an entity an orphan to connect
isOrphan(connected, normalizedEntities, main, entityName) ==
    /\ entityName \notin connected
    /\ hasMainEntity(normalizedEntities, main)
    /\ entityName # main

\* lines 457-476: the fallback relationships, in the order of normalizedEntities
fallbackRelationships(normalizedEntities, real) ==
    LET main == mainEntityName(normalizedEntities, real)
        connected == connectedEntities(real)
        added[n \in 0..Len(normalizedEntities)] ==
            IF n = 0 THEN <<>>
            ELSE IF isOrphan(connected, normalizedEntities, main, normalizedEntities[n][1])
                 THEN Append(added[n - 1],
                             fallbackRelationship(main, normalizedEntities[n][1]))
                 ELSE added[n - 1]
    IN added[Len(normalizedEntities)]

\* lines 451-454 and 480-493: the value returned (result) and the hub selected
\* and logged (mainEntityName when mainEntity is set, else '')
normalizerOutcome(normalizedEntities, real, main) ==
    [result |-> [entities |-> MapValues(normalizedEntities),
                 relationships |-> real \o fallbackRelationships(normalizedEntities, real)],
     hub |-> IF hasMainEntity(normalizedEntities, main) THEN main ELSE <<>>]

\* Step 5, lines 418-493, given normalizedEntities and normalizedRelationships
normalizerFromRelationships(normalizedEntities, real) ==
    normalizerOutcome(normalizedEntities, real, mainEntityName(normalizedEntities, real))

\* Steps 4 and 5, lines 383-493, given the Maps of steps 1 to 3
normalizerFromEntities(nm, flag, normalizedEntities, rels) ==
    normalizerFromRelationships(normalizedEntities,
                                realRelationships(nm, flag, normalizedEntities, rels))

\* Steps 2 to 5, lines 316-493, given the name mapping of step 1
normalizerFromMapping(nm, flag, ents, rels) ==
    normalizerFromEntities(nm, flag, materializedEntities(nm, flag, ents, rels), rels)

\* the call seeded with a placeholder entity, so that normalizedEntities is
\* never empty
normalizerRun_withPlaceholderEntity(ents, rels, flag) ==
    normalizerFromMapping(
        nameMapping(<<[name |-> <<117, 110, 107, 110, 111, 119, 110>>, type |-> "person"]>> \o ents, rels),
        flag, <<[name |-> <<117, 110, 107, 110, 111, 119, 110>>, type |-> "person"]>> \o ents, rels)

\* One call of normalizeNetworkData: each step's value is handed to the steps
\* after it
normalizerRun(ents, rels, flag) ==
    normalizerFromMapping(nameMapping(ents, rels), flag, ents, rels)

normalizeNetworkData(ents, rels, flag) == normalizerRun(ents, rels, flag).result

----------------------------------------------------------------------------
(* The caller of normalizeNetworkData: it assembles the raw records the    *)
(* extraction returned and calls the normalizer once.                      *)

rawPutin == <<80, 117, 116, 105, 110>>  \* 'Putin'
rawVladimirPutin == <<86, 108, 97, 100, 105, 109, 105, 114, 32, 80, 117, 116, 105, 110, 32>>  \* 'Vladimir Putin '
rawCyrPutin == <<1055, 1091, 1090, 1080, 1085>>  \* 'Путин', Putin in Cyrillic
rawKim == <<75, 105, 109>>  \* 'Kim'
rawXi == <<88, 105>>  \* 'Xi'
rawBlank == <<32>>  \* ' '

MaxEntities == 2
MaxRelationships == 2

\* the raw entity records the caller may pass: with and without role, with a
\* blank name, without a name
RawEntityUniverse ==
    { [name |-> rawPutin, type |-> "politician", role |-> "President of Russia"],
      [name |-> rawVladimirPutin, type |-> "politician"],
      [name |-> rawCyrPutin, type |-> "politician", role |-> "President of Russia"],
      [name |-> rawKim, type |-> "politician", role |-> "Leader of North Korea"],
      [name |-> rawBlank, type |-> "organization", role |-> "Unknown"],
      [type |-> "organization", role |-> "Unknown"] }

RawEndpointUniverse == {rawPutin, rawCyrPutin, rawKim, rawXi, rawBlank}

RawRelationshipUniverse ==
    { [source |-> s, target |-> t, type |-> "political", sentiment |-> "negative",
       strength |-> 3] : s \in RawEndpointUniverse, t \in RawEndpointUniverse }

NoOutput == [entities |-> <<>>, relationships |-> <<>>]

ResolverIdle ==
    /\ name = <<>>
    /\ resolved = Undefined
    /\ reresolved = Undefined
    /\ rpc = "idle"

DetectorIdle ==
    /\ text = <<>>
    /\ typed = 0
    /\ classified = FALSE
    /\ verdict = FALSE

NormalizerIdle ==
    /\ entities = <<>>
    /\ relationships = <<>>
    /\ englishOnly = FALSE
    /\ pc = "idle"
    /\ out = NoOutput
    /\ hub = <<>>

NoResponse == [status |-> 0]

EndpointIdle ==
    /\ route = "none"
    /\ response = NoResponse
    /\ shared = {}
    /\ renormalized = NoOutput

ScenarioIdle ==
    /\ revision = "none"
    /\ reply = Undefined
    /\ written = 0
    /\ scenario = NoResponse

UpstreamIdle ==
    /\ calls = <<>>
    /\ leaderName = <<>>
    /\ numConnections = 0
    /\ articles = 0
    /\ primary = <<>>

ComponentIdle ==
    /\ component = "none"
    /\ field = <<>>
    /\ isLoading = FALSE
    /\ error = "null"
    /\ result = "null"

Init ==
    /\ entities = <<>>
    /\ relationships = <<>>
    /\ englishOnly \in BOOLEAN
    /\ pc = "input"
    /\ out = NoOutput
    /\ hub = <<>>
    /\ ResolverIdle
    /\ DetectorIdle
    /\ EndpointIdle
    /\ ScenarioIdle
    /\ UpstreamIdle
    /\ ComponentIdle

AddEntity(e) ==
    /\ pc = "input"
    /\ Len(entities) < MaxEntities
    /\ entities' = Append(entities, e)
    /\ UNCHANGED <<relationships, englishOnly, pc, out, hub, resolverVars, detectorVars, endpointVars, scenarioVars, upstreamVars, componentVars>>
AddRelationship(r) ==
    /\ pc = "input"
    /\ Len(relationships) < MaxRelationships
    /\ relationships' = Append(relationships, r)
    /\ UNCHANGED <<entities, englishOnly, pc, out, hub, resolverVars, detectorVars, endpointVars, scenarioVars, upstreamVars, componentVars>>
Normalize ==
    /\ pc = "input"
    /\ \E run \in {normalizerRun(entities, relationships, englishOnly)} :
           /\ out' = run.result
           /\ hub' = run.hub
    /\ pc' = "done"
    /\ UNCHANGED <<entities, relationships, englishOnly, resolverVars, detectorVars, endpointVars, scenarioVars, upstreamVars, componentVars>>
Next ==
    \/ \E e \in RawEntityUniverse : AddEntity(e)
    \/ \E r \in RawRelationshipUniverse : AddRelationship(r)
    \/ Normalize

Spec == Init /\ [][Next]_vars

----------------------------------------------------------------------------
(* Properties of the output of normalizeNetworkData *)

EntityNames(o) == {o.entities[i].name : i \in 1..Len(o.entities)}

IsFallback(r) == "is_fallback" \in DOMAIN r /\ r.is_fallback = TRUE

RealOf(o) == {i \in 1..Len(o.relationships) : ~IsFallback(o.relationships[i])}
FallbackOf(o) == {i \in 1..Len(o.relationships) : IsFallback(o.relationships[i])}

\* the names that are the source or the target of some relationship of o
Endpoints(o) ==
    {o.relationships[i].source : i \in 1..Len(o.relationships)}
        \cup {o.relationships[i].target : i \in 1..Len(o.relationships)}

\* C1: every relationship of the output, real or fallback, has a source and a
\* target that are each the name of an entity of the output.
C1_NoDanglingRelationship ==
    pc = "done" =>
        \A i \in 1..Len(out.relationships) :
            /\ \E j \in 1..Len(out.entities) :
                   out.entities[j].name = out.relationships[i].source
            /\ \E j \in 1..Len(out.entities) :
                   out.entities[j].name = out.relationships[i].target

\* a call that returned a real and a fallback relationship
C1_Witness ==
    /\ pc = "done"
    /\ RealOf(out) # {}
    /\ FallbackOf(out) # {}

\* the raw entities with a usable name, and the raw relationships with a
\* non-empty source and target that both name one of those entities
UsableEntityNames ==
    {lowerTrim(entities[i].name) :
        i \in {k \in 1..Len(entities) : Truthy(Field(entities[k], "name"))
                                        /\ Truthy(lowerTrim(entities[k].name))}}

ValidRelationshipsAmongEntities ==
    {i \in 1..Len(relationships) :
        /\ lowerTrim(OrEmpty(Field(relationships[i], "source"))) \in UsableEntityNames
        /\ lowerTrim(OrEmpty(Field(relationships[i], "target"))) \in UsableEntityNames}

EveryEntityHasARelationship ==
    \A j \in 1..Len(out.entities) : out.entities[j].name \in Endpoints(out)

\* C2 as stated: an input with at least 2 entities and at least 1 valid
\* relationship among them gives an output in which every entity is the source
\* or the target of at least one relationship.
C2_Original ==
    (/\ pc = "done"
     /\ Cardinality(UsableEntityNames) >= 2
     /\ ValidRelationshipsAmongEntities # {})
        => EveryEntityHasARelationship

\* C2 as amended: whenever at least one real relationship survives
\* normalization, every entity of the output is the source or the target of at
\* least one relationship of the output, real or fallback.
C2_NoOrphanWhenARelationshipSurvives ==
    (pc = "done" /\ RealOf(out) # {}) => EveryEntityHasARelationship

\* a real relationship survived and an entity outside it was connected by a fallback
C2_Witness ==
    /\ pc = "done"
    /\ Cardinality(UsableEntityNames) >= 2
    /\ ValidRelationshipsAmongEntities # {}
    /\ RealOf(out) # {}
    /\ FallbackOf(out) # {}
    /\ Len(out.entities) >= 3

\* the names reachable from the name h over the relationships of o, followed
\* in either direction
Neighbours(o, S) ==
    S \cup {o.relationships[i].target :
                i \in {k \in 1..Len(o.relationships) : o.relationships[k].source \in S}}
      \cup {o.relationships[i].source :
                i \in {k \in 1..Len(o.relationships) : o.relationships[k].target \in S}}

RECURSIVE ReachableFrom(_, _)
ReachableFrom(o, S) ==
    LET T == Neighbours(o, S) IN IF T = S THEN S ELSE ReachableFrom(o, T)

C4_UniqueEntityNames ==
    pc = "done" =>
        \A i, j \in 1..Len(out.entities) :
            out.entities[i].name = out.entities[j].name => i = j

\* two raw entities were merged into one output entity
C4_Witness ==
    /\ pc = "done"
    /\ \E j \in 1..Len(out.entities) : Len(out.entities[j].original_names) >= 2

\* C5: with englishOnly = true, every string in an output entity's
\* original_names and every source_original and target_original of an output
\* relationship is a string for which isLikelyEnglish returns true.
C5_EnglishOnlyOutput ==
    (pc = "done" /\ englishOnly) =>
        /\ \A j \in 1..Len(out.entities) :
               \A k \in 1..Len(out.entities[j].original_names) :
                   isLikelyEnglish(out.entities[j].original_names[k])
        /\ \A i \in RealOf(out) :
               /\ isLikelyEnglish(out.relationships[i].source_original)
               /\ isLikelyEnglish(out.relationships[i].target_original)

\* an englishOnly call that was given a non-English entity and a relationship
\* with a non-English end, and still returned entities and a real relationship
C5_Witness ==
    /\ pc = "done"
    /\ englishOnly
    /\ \E i \in 1..Len(entities) :
           Truthy(Field(entities[i], "name")) /\ ~isLikelyEnglish(lowerTrim(entities[i].name))
    /\ \E i \in 1..Len(relationships) :
           ~isLikelyEnglish(lowerTrim(relationships[i].source))
    /\ RealOf(out) # {}

\* the entities of the output whose original_names holds the surface form n
HoldersOf(n) ==
    {j \in 1..Len(out.entities) :
        \E k \in 1..Len(out.entities[j].original_names) :
            out.entities[j].original_names[k] = n}

\* C6: with englishOnly = false, two raw entities whose names have the same
\* normalizeEntityName collapse into exactly one output entity, whose
\* original_names holds both lowercased originals, whatever else the input holds.
C6_SameCanonicalNameMerges ==
    (pc = "done" /\ ~englishOnly) =>
        \A i, j \in 1..Len(entities) :
            (/\ Truthy(Field(entities[i], "name"))
             /\ Truthy(Field(entities[j], "name"))
             /\ normalizeEntityName(entities[i].name) = normalizeEntityName(entities[j].name))
                => /\ HoldersOf(lowerTrim(entities[i].name)) = HoldersOf(lowerTrim(entities[j].name))
                   /\ Cardinality(HoldersOf(lowerTrim(entities[i].name))) = 1

----------------------------------------------------------------------------
(* A caller of normalizeEntityName: it builds a name from alias-table keys *)
(* and values and from the words the heuristics look for, in any case and  *)
(* with surrounding white space, resolves it, and resolves the result.     *)

str_mr == <<109, 114>>  \* 'mr'

MaxWords == 2

str_administration == <<97, 100, 109, 105, 110, 105, 115, 116, 114, 97, 116, 105, 111, 110>>  \* 'administration'

HeuristicWords ==
    {str_putin, str_trump, str_ivanka, str_junior, str_jr, str_biden, str_bidden,
     str_hunter, str_zelensky, str_jinping, str_xi, str_mr, str_administration,
     str_constructor, str_proto}

\* the number of words of a name: one more than its spaces
WordCount(s) == Cardinality({i \in 1..Len(s) : s[i] = 32}) + 1

ResolverSeeds == AliasKeys \cup AliasValues \cup HeuristicWords \cup {<<>>}

\* the upper-case spelling of a name in Basic Latin, Greek or Cyrillic
upperCaseUnit(c) ==
    IF c >= 97 /\ c <= 122 THEN c - 32
    ELSE IF c >= 945 /\ c <= 971 /\ c # 962 THEN c - 32
    ELSE IF c >= 1072 /\ c <= 1103 THEN c - 32
    ELSE IF c >= 1104 /\ c <= 1119 THEN c - 80
    ELSE c

upperCased(s) == [i \in 1..Len(s) |-> upperCaseUnit(s[i])]

\* the name between a leading space and a trailing tab
padded(s) == <<32>> \o s \o <<9>>

InitResolver ==
    /\ name \in ResolverSeeds
    /\ resolved = Undefined
    /\ reresolved = Undefined
    /\ rpc = "build"
    /\ NormalizerIdle
    /\ DetectorIdle
    /\ EndpointIdle
    /\ ScenarioIdle
    /\ UpstreamIdle
    /\ ComponentIdle

AppendWord(w) ==
    /\ rpc = "build"
    /\ name # <<>>
    /\ name = trim(name)
    /\ WordCount(name) < MaxWords
    /\ name' = name \o <<32>> \o w
    /\ UNCHANGED <<resolved, reresolved, rpc, normalizerVars, detectorVars, endpointVars, scenarioVars, upstreamVars, componentVars>>
Capitalize ==
    /\ rpc = "build"
    /\ upperCased(name) # name
    /\ name' = upperCased(name)
    /\ UNCHANGED <<resolved, reresolved, rpc, normalizerVars, detectorVars, endpointVars, scenarioVars, upstreamVars, componentVars>>
PadWithWhiteSpace ==
    /\ rpc = "build"
    /\ name = trim(name)
    /\ name' = padded(name)
    /\ UNCHANGED <<resolved, reresolved, rpc, normalizerVars, detectorVars, endpointVars, scenarioVars, upstreamVars, componentVars>>
Resolve ==
    /\ rpc = "build"
    /\ resolved' = normalizeEntityName(name)
    /\ rpc' = "once"
    /\ UNCHANGED <<name, reresolved, normalizerVars, detectorVars, endpointVars, scenarioVars, upstreamVars, componentVars>>
ResolveAgain ==
    /\ rpc = "once"
    /\ reresolved' = normalizeEntityName(resolved)
    /\ rpc' = "twice"
    /\ UNCHANGED <<name, resolved, normalizerVars, detectorVars, endpointVars, scenarioVars, upstreamVars, componentVars>>
NextResolver ==
    \/ \E w \in HeuristicWords : AppendWord(w)
    \/ Capitalize
    \/ PadWithWhiteSpace
    \/ Resolve
    \/ ResolveAgain

SpecResolver == InitResolver /\ [][NextResolver]_vars

----------------------------------------------------------------------------
(* A caller of isLikelyEnglish: a text of Latin letters followed by a few  *)
(* characters of any script, then classified.                              *)

MaxPadding == 17
MaxTyped == 4

\* one code unit of each script the patterns name, one Latin letter, and one
\* of a script they do not name
SampleUnits ==
    { 97,       \* 'a'
      1087,     \* U+043F Cyrillic pe
      20013,    \* U+4E2D CJK ideograph
      1576,     \* U+0628 Arabic beh
      54392,    \* U+D478 Hangul syllable
      945,      \* U+03B1 Greek alpha
      3585,     \* U+0E01 Thai ko kai
      12354,    \* U+3042 Hiragana a
      2346 }    \* U+092A Devanagari pa

Padding(n) == [i \in 1..n |-> 97]

InitDetector ==
    /\ text \in {Padding(n) : n \in 0..MaxPadding}
    /\ typed = 0
    /\ classified = FALSE
    /\ verdict = FALSE
    /\ NormalizerIdle
    /\ ResolverIdle
    /\ EndpointIdle
    /\ ScenarioIdle
    /\ UpstreamIdle
    /\ ComponentIdle

TypeCharacter(c) ==
    /\ ~classified
    /\ typed < MaxTyped
    /\ text' = Append(text, c)
    /\ typed' = typed + 1
    /\ UNCHANGED <<classified, verdict, normalizerVars, resolverVars, endpointVars, scenarioVars, upstreamVars, componentVars>>
Classify ==
    /\ ~classified
    /\ verdict' = isLikelyEnglish(text)
    /\ classified' = TRUE
    /\ UNCHANGED <<text, typed, normalizerVars, resolverVars, endpointVars, scenarioVars, upstreamVars, componentVars>>
NextDetector ==
    \/ \E c \in SampleUnits : TypeCharacter(c)
    \/ Classify

SpecDetector == InitDetector /\ [][NextDetector]_vars

----------------------------------------------------------------------------
(* Properties of normalizeEntityName and isLikelyEnglish *)

\* C7: normalizeEntityName is idempotent: for every string s, alias-table
\* keys and values included, normalizeEntityName(normalizeEntityName(s)) =
\* normalizeEntityName(s).
C7_Idempotent ==
    rpc = "twice" => reresolved = resolved

\* the number of characters of t whose code unit lies in lo..hi
CharactersIn(t, lo, hi) == Cardinality({i \in 1..Len(t) : t[i] >= lo /\ t[i] <= hi})

\* The number of non-Latin characters of t as the seven patterns of
\* isLikelyEnglish designate them: the characters each pattern matches, summed
\* over the patterns (a CJK ideograph is matched by the Chinese and by the
\* Japanese pattern, and is counted by both).
NonLatinCharacters(t) ==
      CharactersIn(t, 1024, 1279)
    + CharactersIn(t, 19968, 40959)
    + CharactersIn(t, 1536, 1791)
    + CharactersIn(t, 44032, 55215)
    + CharactersIn(t, 880, 1023)
    + CharactersIn(t, 3584, 3711)
    + Cardinality({i \in 1..Len(t) : \/ (t[i] >= 12352 /\ t[i] <= 12543)
                                     \/ (t[i] >= 19968 /\ t[i] <= 40879)})

\* C8: isLikelyEnglish returns true for the empty string, and for a non-empty
\* text it returns true if and only if the number of its characters in the
\* designated non-Latin script ranges is strictly less than 15% of its length.
C8_EnglishIffUnderFifteenPercent ==
    classified =>
        IF text = <<>> THEN verdict = TRUE
        ELSE verdict <=> (NonLatinCharacters(text) * 100 < Len(text) * 15)

\* C9: isLikelyEnglish on a 20-character string with exactly 3 Cyrillic and 17
\* Latin characters returns true, and on a 20-character string with exactly 4
\* Cyrillic and 16 Latin characters returns false.
C9_ThresholdBoundary ==
    (classified /\ Len(text) = 20) =>
        /\ (CharactersIn(text, 1024, 1279) = 3 /\ CharactersIn(text, 97, 122) = 17)
               => verdict = TRUE
        /\ (CharactersIn(text, 1024, 1279) = 4 /\ CharactersIn(text, 97, 122) = 16)
               => verdict = FALSE

\* The rules of the claim's list for a lowercased, trimmed name l, in the
\* claim's order: <<the rule matches, its result>>
ClaimedRules(l) ==
    << << includes(l, str_putin), str_vladimir_putin >>,
       << /\ includes(l, str_trump)
          /\ ~includes(l, str_ivanka) /\ ~includes(l, str_junior) /\ ~includes(l, str_jr),
          str_donald_trump >>,
       << (includes(l, str_biden) \/ includes(l, str_bidden)) /\ ~includes(l, str_hunter),
          str_joe_biden >>,
       << includes(l, str_zelensky), str_volodymyr_zelensky >>,
       << includes(l, str_jinping) \/ (includes(l, str_xi) /\ Len(l) < 15),
          str_xi_jinping >> >>

FirstMatchingRule(l) ==
    LET matching == {i \in 1..Len(ClaimedRules(l)) : ClaimedRules(l)[i][1]}
    IN IF matching = {} THEN l
       ELSE ClaimedRules(l)[CHOOSE i \in matching : \A j \in matching : i <= j][2]

\* C10: for every name whose lowercased, trimmed form is not a key of the
\* alias table, normalizeEntityName returns the result of the first matching
\* rule (putin, trump, biden, zelensky, xi/jinping, else the lowercased,
\* trimmed name itself), whatever the case and the surrounding white space of
\* the name.
C10_FirstMatchingRule ==
    (rpc # "build" /\ lowerTrim(name) \notin AliasKeys) =>
        /\ resolved = FirstMatchingRule(lowerTrim(name))
        /\ resolved = normalizeEntityName(upperCased(name))
        /\ resolved = normalizeEntityName(padded(name))

\* the keys of the alias table written in a non-Latin script whose value
\* names Putin (utils.ts:52, 53, 102, 106, 110, 123, 124)
PutinSpellings ==
    {k \in AliasKeys : /\ \A i \in 1..Len(k) : k[i] = 32 \/ k[i] > 127
                       /\ includes(ENTITY_NAME_MAPPINGS(k), str_putin)}

\* C11: the alias table maps every surface form of one entity to one
\* canonical name: normalizeEntityName of every Cyrillic, Korean, Chinese,
\* Arabic and Bengali spelling of 'Putin' present in the table, in any case
\* and with surrounding white space, returns 'vladimir putin'.
C11_PutinSpellingsResolveToOneName ==
    (rpc # "build" /\ lowerTrim(name) \in PutinSpellings) => resolved = str_vladimir_putin

----------------------------------------------------------------------------
(* The two network endpoints, POST /api/leaders/[name] ("leader") and POST *)
(* /api/leaders/connections ("connections"): the raw records the           *)
(* extraction returned are collected, normalizeNetworkData is called once  *)
(* and the endpoint answers.                                               *)

rawCyrVladimirPutin == <<1042, 1083, 1072, 1076, 1080, 1084, 1080, 1088, 32, 1055, 1091, 1090, 1080, 1085>>  \* 'Владимир Путин'
rawZelensky == <<90, 101, 108, 101, 110, 115, 107, 121>>  \* 'Zelensky'
rawCyrZelensky == <<1047, 1077, 1083, 1077, 1085, 1089, 1082, 1080, 1081>>  \* 'Зеленский'

MaxCollectedEntities == 3
MaxCollectedRelationships == 2

\* the entity records an extraction may return: with and without role,
\* without a name, with an empty name
ExtractedEntities ==
    { [name |-> rawCyrVladimirPutin, type |-> "politician", role |-> "President of Russia"],
      [name |-> rawZelensky, type |-> "politician"],
      [name |-> rawKim, type |-> "politician", role |-> "Leader of North Korea"],
      [type |-> "organization", role |-> "Unknown"],
      [name |-> <<>>, type |-> "organization", role |-> "Unknown"] }

\* the relationship records an extraction may return: complete, without a
\* source, with an empty source
ExtractedRelationships ==
    { [source |-> rawCyrVladimirPutin, target |-> rawZelensky, type |-> "opponent",
       sentiment |-> "negative", strength |-> 5],
      [source |-> rawZelensky, target |-> rawKim, type |-> "political",
       sentiment |-> "neutral", strength |-> 2],
      [target |-> rawCyrZelensky, type |-> "political", sentiment |-> "neutral",
       strength |-> 1],
      [source |-> <<>>, target |-> rawKim, type |-> "political", sentiment |-> "neutral",
       strength |-> 1] }

\* [name]/route.ts:185-186: rel.source_url = ...; rel.source_date = ...
withSourceContext(rel) ==
    [f \in DOMAIN rel \cup {"source_url", "source_date"} |->
        IF f = "source_url" THEN "url"
        ELSE IF f = "source_date" THEN "date"
        ELSE rel[f]]

InitEndpoints ==
    /\ route \in {"leader", "connections"}
    /\ englishOnly \in (IF route = "connections" THEN {TRUE} ELSE BOOLEAN)
    /\ entities = <<>>
    /\ relationships = <<>>
    /\ pc = "collect"
    /\ out = NoOutput
    /\ hub = <<>>
    /\ response = NoResponse
    /\ shared = {}
    /\ renormalized = NoOutput
    /\ ResolverIdle
    /\ DetectorIdle
    /\ ScenarioIdle
    /\ UpstreamIdle
    /\ ComponentIdle

\* [name]/route.ts:191-197: the entities pass through a Set of their JSON
\* texts, which keeps one of each; connections/route.ts:46 passes the list
\* as extracted
CollectEntity(e) ==
    /\ pc = "collect"
    /\ Len(entities) < MaxCollectedEntities
    /\ route = "leader" => \A i \in 1..Len(entities) : entities[i] # e
    /\ entities' = Append(entities, e)
    /\ UNCHANGED <<relationships, englishOnly, pc, out, hub, route, response, shared,
                   renormalized, resolverVars, detectorVars, scenarioVars, upstreamVars, componentVars>>

CollectRelationship(r) ==
    /\ pc = "collect"
    /\ Len(relationships) < MaxCollectedRelationships
    /\ relationships' = Append(relationships,
                               IF route = "leader" THEN withSourceContext(r) ELSE r)
    /\ UNCHANGED <<entities, englishOnly, pc, out, hub, route, response, shared,
                   renormalized, resolverVars, detectorVars, scenarioVars, upstreamVars, componentVars>>

\* The identity of the objects normalizedEntities holds: the index of a
\* record of the caller's entities array, or NewObject for an object the
\* call created
NewObject == 0

\* normalizedEntities.set(normalizedName, entity): the raw entity itself is stored
storedObject_theEntityItself(i) == i

\* lines 336-340: normalizedEntities.set(normalizedName, {...entity, ...})
\* stores an object literal for the raw entity at index i
storedObject(i) == NewObject

\* line 334, existingEntity.original_names = ..., where existingEntity is the
\* object ref: a write to the caller's array when ref is one of its records
writeOriginalNames(st, ref, originalName) ==
    IF ref = NewObject THEN st
    ELSE [st EXCEPT !.array[ref] = mergeOriginalName(@, originalName)]

\* lines 331-341 for the raw entity at index i
mergeOrStoreObject(st, i, originalName, normalizedName) ==
    IF MapHas(st.objects, normalizedName)
    THEN writeOriginalNames(st, MapGet(st.objects, normalizedName), originalName)
    ELSE [st EXCEPT !.objects = MapSet(@, normalizedName, storedObject(i))]

\* lines 320-342 for the raw entity at index i: st.objects maps a canonical
\* name to the object normalizedEntities holds for it, st.array is the
\* caller's array
visitEntityObject(nm, flag, st, i) ==
    IF ~Truthy(Field(st.array[i], "name")) THEN st
    ELSE IF flag /\ lowerTrim(st.array[i].name) \in nm.nonEnglishNames THEN st
    ELSE mergeOrStoreObject(st, i, lowerTrim(st.array[i].name),
                            MapGet(nm.entityMap, lowerTrim(st.array[i].name)))

\* lines 320-342: the objects of normalizedEntities and the caller's array
\* after step 2; steps 3 to 5 store object literals only and assign to no
\* property of an existing object
entityHeap(nm, flag, ents) ==
    LET visited[n \in 0..Len(ents)] ==
            IF n = 0 THEN [objects |-> <<>>, array |-> ents]
            ELSE visitEntityObject(nm, flag, visited[n - 1], n)
    IN visited[Len(ents)]

\* the caller's entity objects that normalizedEntities holds
sharedObjects(heap) ==
    {heap.objects[k][2] : k \in 1..Len(heap.objects)} \ {NewObject}

\* [name]/route.ts:200 and connections/route.ts:45-49
CallNormalizer ==
    /\ pc = "collect"
    /\ \E run \in {normalizerRun(entities, relationships, englishOnly)} :
           /\ out' = run.result
           /\ hub' = run.hub
    /\ \E heap \in {entityHeap(nameMapping(entities, relationships), englishOnly, entities)} :
           /\ entities' = heap.array
           /\ shared' = sharedObjects(heap)
    /\ pc' = "normalized"
    /\ UNCHANGED <<relationships, englishOnly, route, response, renormalized,
                   resolverVars, detectorVars, scenarioVars, upstreamVars, componentVars>>

\* [name]/route.ts:36-42: the leader endpoint answers with the graph
leaderResponse(normalizedData) ==
    [status |-> 200, entities |-> normalizedData.entities,
     relationships |-> normalizedData.relationships]

\* connections/route.ts:54-77: not found when there is no relationship
connectionsResponse(normalizedData) ==
    IF Len(normalizedData.relationships) = 0
    THEN [status |-> 404, error |-> "No valid connections found for leader"]
    ELSE [status |-> 200, entities |-> normalizedData.entities,
          relationships |-> normalizedData.relationships]

Respond ==
    /\ pc = "normalized"
    /\ response' = IF route = "leader" THEN leaderResponse(out)
                   ELSE connectionsResponse(out)
    /\ pc' = "responded"
    /\ UNCHANGED <<entities, relationships, englishOnly, out, hub, route, shared,
                   renormalized, resolverVars, detectorVars, scenarioVars, upstreamVars, componentVars>>

\* the graph an endpoint returned is normalized again with the same flag
NormalizeAgain ==
    /\ pc = "responded"
    /\ renormalized' = normalizeNetworkData(out.entities, out.relationships, englishOnly)
    /\ pc' = "renormalized"
    /\ UNCHANGED <<entities, relationships, englishOnly, out, hub, route, response,
                   shared, resolverVars, detectorVars, scenarioVars, upstreamVars, componentVars>>

NextEndpoints ==
    \/ \E e \in ExtractedEntities : CollectEntity(e)
    \/ \E r \in ExtractedRelationships : CollectRelationship(r)
    \/ CallNormalizer
    \/ Respond
    \/ NormalizeAgain

SpecEndpoints == InitEndpoints /\ [][NextEndpoints]_vars

----------------------------------------------------------------------------
(* Properties of the endpoints and of the normalizer on extracted records *)

str_cyr_vladimir_putin == <<1074, 1083, 1072, 1076, 1080, 1084, 1080, 1088, 32, 1087, 1091, 1090, 1080, 1085>>  \* 'владимир путин'

\* the input of C12: two raw entities named 'Владимир Путин' and 'Zelensky'
\* and one relationship from the first to the second, englishOnly = true
CyrillicPutinToZelensky ==
    /\ englishOnly
    /\ Len(entities) = 2
    /\ Field(entities[1], "name") = rawCyrVladimirPutin
    /\ Field(entities[2], "name") = rawZelensky
    /\ Len(relationships) = 1
    /\ Field(relationships[1], "source") = rawCyrVladimirPutin
    /\ Field(relationships[1], "target") = rawZelensky

Returned == pc \in {"done", "normalized", "responded", "renormalized"}

\* the ends of the surviving real relationships of o, in the order source,
\* target of the first, source, target of the second, ...
RealEnds(o) ==
    LET ends[n \in 0..Len(o.relationships)] ==
            IF n = 0 THEN <<>>
            ELSE IF IsFallback(o.relationships[n]) THEN ends[n - 1]
            ELSE ends[n - 1] \o <<o.relationships[n].source, o.relationships[n].target>>
    IN ends[Len(o.relationships)]

\* the in+out degree of n over the surviving real relationships of o
Degree(o, n) == Cardinality({i \in 1..Len(RealEnds(o)) : RealEnds(o)[i] = n})

FirstAppearance(o, n) ==
    CHOOSE i \in 1..Len(RealEnds(o)) :
        RealEnds(o)[i] = n /\ \A j \in 1..(i - 1) : RealEnds(o)[j] # n

\* the hub as C13 describes it: highest degree, and among equal degrees the
\* one that appears first
HighestDegreeHub(o) ==
    CHOOSE n \in {RealEnds(o)[i] : i \in 1..Len(RealEnds(o))} :
        \A m \in {RealEnds(o)[i] : i \in 1..Len(RealEnds(o))} :
            \/ Degree(o, m) < Degree(o, n)
            \/ (Degree(o, m) = Degree(o, n) /\ FirstAppearance(o, n) <= FirstAppearance(o, m))

\* the output entities that are no end of a surviving real relationship
Unconnected(o) == EntityNames(o) \ {RealEnds(o)[i] : i \in 1..Len(RealEnds(o))}

FallbackEdge(h, n) ==
    [source |-> h, target |-> n, type |-> "connection", sentiment |-> "neutral",
     strength |-> 1, description |-> "Connected entities", is_fallback |-> TRUE]

str_kim == <<107, 105, 109>>  \* 'kim'

\* entities [A, B, C] = ['Владимир Путин', 'Zelensky', 'Kim'] with the single
\* relationship A -> B
ThreeEntitiesOneRelationship ==
    /\ Len(entities) = 3
    /\ Field(entities[1], "name") = rawCyrVladimirPutin
    /\ Field(entities[2], "name") = rawZelensky
    /\ Field(entities[3], "name") = rawKim
    /\ Len(relationships) = 1
    /\ Field(relationships[1], "source") = rawCyrVladimirPutin
    /\ Field(relationships[1], "target") = rawZelensky

\* C13: whenever a real relationship survives, the fallback relationships of
\* the output are exactly one edge per output entity that is no end of a
\* surviving real relationship, each {source: hub, target: the entity,
\* type 'connection', sentiment 'neutral', strength 1, description 'Connected
\* entities', is_fallback true}, where the hub has the highest in+out degree
\* over the surviving real relationships and, among equal degrees, appears
\* first in them.  For entities [A, B, C] with the single relationship A -> B
\* there is exactly one fallback edge, from the hub (A) to C.
C13_FallbackEdgesFromTheHub ==
    (Returned /\ RealOf(out) # {}) =>
        /\ \A i \in FallbackOf(out) :
               /\ out.relationships[i].target \in Unconnected(out)
               /\ out.relationships[i] =
                      FallbackEdge(HighestDegreeHub(out), out.relationships[i].target)
        /\ \A n \in Unconnected(out) :
               Cardinality({i \in FallbackOf(out) : out.relationships[i].target = n}) = 1
        /\ hub = HighestDegreeHub(out)
        /\ ThreeEntitiesOneRelationship =>
               /\ Cardinality(FallbackOf(out)) = 1
               /\ \A i \in FallbackOf(out) :
                      out.relationships[i] = FallbackEdge(str_vladimir_putin, str_kim)

C13_Witness ==
    /\ pc = "normalized"
    /\ ThreeEntitiesOneRelationship
    /\ Cardinality(FallbackOf(out)) = 1
    /\ hub = str_vladimir_putin

\* C14: normalizeNetworkData is idempotent on entity identity: if out1 is the
\* result for (E, R, f) and out2 the result for (out1.entities,
\* out1.relationships, f), the set of entity names of out2 equals the set of
\* entity names of out1.
C14_IdempotentOnEntityNames ==
    pc = "renormalized" => EntityNames(renormalized) = EntityNames(out)

\* the list without its element at index i
Without(list, i) == [k \in 1..(Len(list) - 1) |-> IF k < i THEN list[k] ELSE list[k + 1]]

\* a raw entity whose name is missing or empty
NamelessEntity(e) == Field(e, "name") = Undefined \/ Field(e, "name") = <<>>

\* a raw relationship whose source or target is missing or empty
IncompleteRelationship(r) ==
    \/ Field(r, "source") = Undefined \/ Field(r, "source") = <<>>
    \/ Field(r, "target") = Undefined \/ Field(r, "target") = <<>>

\* C16: a raw entity whose name is missing or empty, and a raw relationship
\* whose source or target is missing or empty, is dropped silently: the call
\* raises no exception, and the output is the same as for the input with
\* that record removed.
C16_InvalidRecordsAreDropped ==
    Returned =>
        /\ \A i \in 1..Len(entities) :
               NamelessEntity(entities[i]) =>
                   out = normalizeNetworkData(Without(entities, i), relationships, englishOnly)
        /\ \A j \in 1..Len(relationships) :
               IncompleteRelationship(relationships[j]) =>
                   out = normalizeNetworkData(entities, Without(relationships, j), englishOnly)

\* C17: normalizeNetworkData([], [], false) returns an empty entity list and
\* an empty relationship list without throwing, and selects no hub.
C17_EmptyInput ==
    (Returned /\ entities = <<>> /\ relationships = <<>> /\ ~englishOnly) =>
        /\ out = [entities |-> <<>>, relationships |-> <<>>]
        /\ hub = <<>>

C17_Witness ==
    /\ pc = "done"
    /\ entities = <<>>
    /\ relationships = <<>>
    /\ ~englishOnly
    /\ Len(out.entities) = 0

\* C18: every entity of the output carries a type and a role: an entity
\* implied only by a relationship gets type 'person' and role 'Unknown', and a
\* raw entity record that lacks a role (or a type) is given the default
\* instead of being emitted without that field.
C18_EveryEntityHasTypeAndRole ==
    Returned =>
        \A i \in 1..Len(out.entities) :
            /\ "type" \in DOMAIN out.entities[i]
            /\ "role" \in DOMAIN out.entities[i]

\* C20: in both network endpoints, whenever the normalizer returns zero
\* entities or zero relationships, the endpoint answers with a not-found error
\* response and never with a success response carrying an empty graph.
C20_NotFoundOnEmptyGraph ==
    (pc \in {"responded", "renormalized"}
        /\ (Len(out.entities) = 0 \/ Len(out.relationships) = 0))
            => response.status = 404

\* C15: normalizeNetworkData leaves its inputs unchanged: after any call the
\* entities array, the relationships array and every record in them have the
\* same fields and values as before the call, and all output records are new
\* objects (the result holds none of the caller's objects).
C15_InputsUnchanged ==
    [][(pc = "collect" /\ pc' = "normalized") =>
           /\ entities' = entities
           /\ relationships' = relationships
           /\ shared' = {}]_vars

\* a call in which two raw entities were merged into one output entity, so
\* that line 334 assigned original_names of the stored object
C15_Witness ==
    /\ pc = "normalized"
    /\ \E i, j \in 1..Len(entities) :
           /\ i < j
           /\ Truthy(Field(entities[i], "name"))
           /\ entities[i] = entities[j]
           /\ \E k \in 1..Len(out.entities) :
                  lowerTrim(entities[i].name) \in
                      {out.entities[k].original_names[n] :
                           n \in 1..Len(out.entities[k].original_names)}

----------------------------------------------------------------------------
(* The scenario endpoint, app/api/leaders/scenario/route.ts, and its later *)
(* revision in part_003: the model's reply is cut into sections by header, *)
(* and the entity and relationship sections are parsed line by line.       *)

hdr_summary == <<83, 117, 109, 109, 97, 114, 121, 58>>  \* 'Summary:'
hdr_network_vulnerabilities == <<78, 101, 116, 119, 111, 114, 107, 32, 86, 117, 108, 110, 101, 114, 97, 98, 105, 108, 105, 116, 105, 101, 115, 58>>  \* 'Network Vulnerabilities:'
hdr_network_impact == <<78, 101, 116, 119, 111, 114, 107, 32, 73, 109, 112, 97, 99, 116, 58>>  \* 'Network Impact:'
hdr_political_outcomes == <<80, 111, 108, 105, 116, 105, 99, 97, 108, 32, 79, 117, 116, 99, 111, 109, 101, 115, 58>>  \* 'Political Outcomes:'
hdr_geopolitical_strategy == <<71, 101, 111, 112, 111, 108, 105, 116, 105, 99, 97, 108, 32, 83, 116, 114, 97, 116, 101, 103, 121, 32, 73, 109, 112, 108, 105, 99, 97, 116, 105, 111, 110, 115, 58>>  \* 'Geopolitical Strategy Implications:'
hdr_key_entities == <<75, 101, 121, 32, 69, 110, 116, 105, 116, 105, 101, 115, 32, 65, 102, 102, 101, 99, 116, 101, 100, 58>>  \* 'Key Entities Affected:'
hdr_key_relationships == <<75, 101, 121, 32, 82, 101, 108, 97, 116, 105, 111, 110, 115, 104, 105, 112, 115, 32, 65, 102, 102, 101, 99, 116, 101, 100, 58>>  \* 'Key Relationships Affected:'
msg_no_summary == <<78, 111, 32, 115, 117, 109, 109, 97, 114, 121, 32, 97, 118, 97, 105, 108, 97, 98, 108, 101>>  \* 'No summary available'
msg_no_vulnerabilities == <<78, 111, 32, 118, 117, 108, 110, 101, 114, 97, 98, 105, 108, 105, 116, 105, 101, 115, 32, 97, 110, 97, 108, 121, 115, 105, 115, 32, 97, 118, 97, 105, 108, 97, 98, 108, 101>>  \* 'No vulnerabilities analysis available'
msg_no_network_impact == <<78, 111, 32, 110, 101, 116, 119, 111, 114, 107, 32, 105, 109, 112, 97, 99, 116, 32, 97, 110, 97, 108, 121, 115, 105, 115, 32, 97, 118, 97, 105, 108, 97, 98, 108, 101>>  \* 'No network impact analysis available'
msg_no_political_outcomes == <<78, 111, 32, 112, 111, 108, 105, 116, 105, 99, 97, 108, 32, 111, 117, 116, 99, 111, 109, 101, 115, 32, 97, 110, 97, 108, 121, 115, 105, 115, 32, 97, 118, 97, 105, 108, 97, 98, 108, 101>>  \* 'No political outcomes analysis available'
msg_no_geopolitical_strategy == <<78, 111, 32, 103, 101, 111, 112, 111, 108, 105, 116, 105, 99, 97, 108, 32, 115, 116, 114, 97, 116, 101, 103, 121, 32, 97, 110, 97, 108, 121, 115, 105, 115, 32, 97, 118, 97, 105, 108, 97, 98, 108, 101>>  \* 'No geopolitical strategy analysis available'

\* the index of the first occurrence of sub in s at or after from, 0 when
\* there is none
indexOfFrom(s, sub, from) ==
    LET hits == {i \in from..(Len(s) - Len(sub) + 1) : SubSeq(s, i, i + Len(sub) - 1) = sub}
    IN IF hits = {} THEN 0 ELSE CHOOSE i \in hits : \A j \in hits : i <= j

\* ([\s\S]+?)(?=next|$) from index a: the lazy capture takes at least one
\* character and stops before the first occurrence of the next header at
\* a + 1 or later (e), or at the end of the input when there is none (e = 0)
lazyCapture(content, a, e) ==
    SubSeq(content, a, IF e = 0 THEN Len(content) ELSE e - 1)

\* m ? m[1].trim() : "" for m = content.match(/header([\s\S]+?)(?=next|$)/),
\* where p is the index of the first occurrence of the header (0 for none);
\* the match needs one character after the header
sectionAt(content, p, header, next) ==
    IF p = 0 \/ p + Len(header) > Len(content) THEN <<>>
    ELSE trim(lazyCapture(content, p + Len(header),
                          indexOfFrom(content, next, p + Len(header) + 1)))

section(content, header, next) ==
    sectionAt(content, indexOfFrom(content, header, 1), header, next)

\* m ? m[1].trim() : "" for m = content.match(/header([\s\S]+)/): the greedy
\* capture runs to the end of the input
lastSectionAt(content, p, header) ==
    IF p = 0 \/ p + Len(header) > Len(content) THEN <<>>
    ELSE trim(SubSeq(content, p + Len(header), Len(content)))

lastSection(content, header) ==
    lastSectionAt(content, indexOfFrom(content, header, 1), header)

\* scenario/route.ts:95-119
parseScenarioResponse(content) ==
    [summary |-> section(content, hdr_summary, hdr_network_impact),
     network_impact |-> section(content, hdr_network_impact, hdr_political_outcomes),
     political_outcomes |-> section(content, hdr_political_outcomes, hdr_key_entities),
     key_entities |-> section(content, hdr_key_entities, hdr_key_relationships),
     key_relationships |-> lastSection(content, hdr_key_relationships)]

\* part_003:101-133
parseScenarioResponseRevised(content) ==
    [summary |-> section(content, hdr_summary, hdr_network_vulnerabilities),
     network_vulnerabilities |->
         section(content, hdr_network_vulnerabilities, hdr_network_impact),
     network_impact |-> section(content, hdr_network_impact, hdr_political_outcomes),
     political_outcomes |->
         section(content, hdr_political_outcomes, hdr_geopolitical_strategy),
     geopolitical_strategy |->
         section(content, hdr_geopolitical_strategy, hdr_key_entities),
     key_entities |-> section(content, hdr_key_entities, hdr_key_relationships),
     key_relationships |-> lastSection(content, hdr_key_relationships)]

IsBullet(c) == c \in {8226, 45, 42}  \* [•\-*]

\* the line terminators, which . does not match
IsLineTerminator(c) == c \in {10, 13, 8232, 8233}

leftmost(S) == CHOOSE i \in S : \A j \in S : i <= j

rightmost(S) == CHOOSE i \in S : \A j \in S : j <= i

\* the index of the k-th line break of s, 0 for k = 0 and Len(s) + 1 past the
\* last one
lineBreak(s, k) ==
    IF k = 0 THEN 0
    ELSE IF k > Cardinality({i \in 1..Len(s) : s[i] = 10}) THEN Len(s) + 1
    ELSE CHOOSE i \in 1..Len(s) :
             s[i] = 10 /\ Cardinality({j \in 1..i : s[j] = 10}) = k

\* text.split('\n'): the text between consecutive line breaks
splitLines(s) ==
    [k \in 1..(Cardinality({i \in 1..Len(s) : s[i] = 10}) + 1) |->
        SubSeq(s, lineBreak(s, k - 1) + 1, lineBreak(s, k) - 1)]

\* the filter callback line => line.trim()
IsNotBlank(line) == trim(line) # <<>>

\* \s* at index y: the length of the longest run of white space from y
whiteSpaceRun(line, y) ==
    CHOOSE k \in 0..(Len(line) - y + 1) :
        /\ \A i \in y..(y + k - 1) : IsWhiteSpace(line[i])
        /\ (y + k > Len(line) \/ ~IsWhiteSpace(line[y + k]))

\* (.+) at index y: the longest run of characters that are not line
\* terminators
dotCapture(line, y) ==
    SubSeq(line, y,
           rightmost({e \in (y - 1)..Len(line) :
                          \A i \in y..e : ~IsLineTerminator(line[i])}))

\* the index of the first character of line at or after g that is in X, 0
\* when there is none
firstOf(line, X, g) ==
    LET hits == {i \in g..Len(line) : i > 0 /\ line[i] \in X}
    IN IF hits = {} THEN 0 ELSE leftmost(hits)

\* [•\-*]?\s* at start s: both are greedy and give back one character at a
\* time, so the capture that follows is tried at this index first and then
\* at every index down to s
lastCaptureStart(line, s) ==
    IF IsBullet(line[s]) THEN s + 1 + whiteSpaceRun(line, s + 1)
    ELSE s + whiteSpaceRun(line, s)

captureStartFrom(line, ok, starts) ==
    IF starts = {} THEN 0
    ELSE rightmost(ok \cap (leftmost(starts)..lastCaptureStart(line, leftmost(starts))))

\* line.match of a pattern that begins [•\-*]?\s*(: the index where the
\* first capture starts, 0 when the pattern does not match.  ok is the set of
\* indices from which the rest of the pattern matches; the match is at the
\* leftmost start that reaches one of them.
captureStart(line, ok) ==
    captureStartFrom(line, ok,
                     {s \in 1..Len(line) : (s..lastCaptureStart(line, s)) \cap ok # {}})

\* ([^:]+):(.+) from index g: the first capture runs to the first colon c,
\* which must leave it a character, and a character that is no line
\* terminator must follow the colon
colonAndTextFollow(line, g, c) ==
    /\ c > g
    /\ c + 1 <= Len(line)
    /\ ~IsLineTerminator(line[c + 1])

entityAt(line, g, c) ==
    IF g = 0 THEN <<>>
    ELSE << [name |-> trim(SubSeq(line, g, c - 1)), impact |-> trim(dotCapture(line, c + 1))] >>

entityFrom(line, g) == entityAt(line, g, firstOf(line, {58}, g))

\* scenario/route.ts:133-139: line.match(/[•\-*]?\s*([^:]+):(.+)/), and the
\* record pushed for a match; the empty sequence for null
entityLineMatch(line) ==
    entityFrom(line, captureStart(line,
        {g \in 1..Len(line) : colonAndTextFollow(line, g, firstOf(line, {58}, g))}))

\* scenario/route.ts:127-143
parseKeyEntities(entityText) ==
    LET lines == SelectSeq(splitLines(entityText), IsNotBlank)
        found[n \in 0..Len(lines)] ==
            IF n = 0 THEN <<>> ELSE found[n - 1] \o entityLineMatch(lines[n])
    IN found[Len(lines)]

\* \s*([^:]+) from index y with the first colon at c: the white space gives
\* back its last character when it reaches the colon
targetStart(line, y, c) ==
    IF y + whiteSpaceRun(line, y) < c THEN y + whiteSpaceRun(line, y) ELSE c - 1

\* ([^X]+)sep\s*([^:]+):(.+) from index g: the first capture runs to the
\* first character x that is in X, which must leave it a character; sep must
\* stand at x, and the rest must match after it
separatorAndRestFollow(line, sep, g, x) ==
    /\ x > g
    /\ x + Len(sep) - 1 <= Len(line)
    /\ SubSeq(line, x, x + Len(sep) - 1) = sep
    /\ colonAndTextFollow(line, x + Len(sep), firstOf(line, {58}, x + Len(sep)))

relationshipAt(line, g, x, y, c) ==
    IF g = 0 THEN <<>>
    ELSE << [source |-> trim(SubSeq(line, g, x - 1)),
             target |-> trim(SubSeq(line, targetStart(line, y, c), c - 1)),
             change |-> trim(dotCapture(line, c + 1))] >>

relationshipFromSeparator(line, sep, g, x) ==
    relationshipAt(line, g, x, x + Len(sep), firstOf(line, {58}, x + Len(sep)))

relationshipFrom(line, X, sep, g) ==
    relationshipFromSeparator(line, sep, g, firstOf(line, X, g))

\* line.match(/[•\-*]?\s*([^X]+)sep\s*([^:]+):(.+)/) and the record pushed
\* for a match; the empty sequence for null
relationshipLineMatch(line, X, sep) ==
    relationshipFrom(line, X, sep, captureStart(line,
        {g \in 1..Len(line) : separatorAndRestFollow(line, sep, g, firstOf(line, X, g))}))

\* scenario/route.ts:158: /[•\-*]?\s*([^→]+)→\s*([^:]+):(.+)/
arrowMatch(line) == relationshipLineMatch(line, {8594}, <<8594>>)

\* scenario/route.ts:159: /[•\-*]?\s*([^-]+)-\s*([^:]+):(.+)/
dashMatch(line) == relationshipLineMatch(line, {45}, <<45>>)

\* scenario/route.ts:160: /[•\-*]?\s*([^and]+)and\s*([^:]+):(.+)/, where
\* [^and] is the class of the characters other than a, n and d
andMatch(line) == relationshipLineMatch(line, {97, 110, 100}, <<97, 110, 100>>)

\* scenario/route.ts:162-180
relationshipLine(line) ==
    IF arrowMatch(line) # <<>> THEN arrowMatch(line)
    ELSE IF dashMatch(line) # <<>> THEN dashMatch(line)
    ELSE andMatch(line)

\* scenario/route.ts:152-184
parseKeyRelationships(relationshipText) ==
    LET lines == SelectSeq(splitLines(relationshipText), IsNotBlank)
        found[n \in 0..Len(lines)] ==
            IF n = 0 THEN <<>> ELSE found[n - 1] \o relationshipLine(lines[n])
    IN found[Len(lines)]

\* v || d
orDefault_noDefault(v, d) == v

\* v || d
orDefault(v, d) == IF Truthy(v) THEN v ELSE d

\* scenario/route.ts:74-83: the response built from the sections
scenarioResponse(sections, responseContent) ==
    [status |-> 200,
     summary |-> orDefault(sections.summary, msg_no_summary),
     network_impact |-> orDefault(sections.network_impact, msg_no_network_impact),
     political_outcomes |-> orDefault(sections.political_outcomes, msg_no_political_outcomes),
     key_entities |-> parseKeyEntities(orDefault(sections.key_entities, <<>>)),
     key_relationships |-> parseKeyRelationships(orDefault(sections.key_relationships, <<>>)),
     full_analysis |-> responseContent]

\* part_003:78-89
scenarioResponseRevised(sections, responseContent) ==
    [status |-> 200,
     summary |-> orDefault(sections.summary, msg_no_summary),
     network_vulnerabilities |->
         orDefault(sections.network_vulnerabilities, msg_no_vulnerabilities),
     network_impact |-> orDefault(sections.network_impact, msg_no_network_impact),
     political_outcomes |-> orDefault(sections.political_outcomes, msg_no_political_outcomes),
     geopolitical_strategy |->
         orDefault(sections.geopolitical_strategy, msg_no_geopolitical_strategy),
     key_entities |-> parseKeyEntities(orDefault(sections.key_entities, <<>>)),
     key_relationships |-> parseKeyRelationships(orDefault(sections.key_relationships, <<>>)),
     full_analysis |-> responseContent]

txt_all_good == <<32, 97, 108, 108, 32, 103, 111, 111, 100>>  \* ' all good'
txt_entity_line == <<45, 32, 80, 117, 116, 105, 110, 58, 32, 119, 101, 97, 107, 101, 114>>  \* '- Putin: weaker'
txt_arrow_line == <<80, 117, 116, 105, 110, 32, 8594, 32, 88, 105, 58, 32, 99, 111, 108, 100, 101, 114>>  \* 'Putin \u2192 Xi: colder'
txt_dash_line == <<42, 32, 80, 117, 116, 105, 110, 32, 45, 32, 88, 105, 58, 32, 99, 111, 108, 100, 101, 114>>  \* '* Putin - Xi: colder'
txt_and_line == <<80, 117, 116, 105, 110, 32, 97, 110, 100, 32, 88, 105, 58, 32, 99, 108, 111, 115, 101, 114>>  \* 'Putin and Xi: closer'

MaxPieces == 3

\* what the model may write: the headers of both revisions, a sentence, an
\* entity line, a relationship line of each separator, a line break
ReplyPieces ==
    {hdr_summary, hdr_network_vulnerabilities, hdr_network_impact, hdr_political_outcomes,
     hdr_geopolitical_strategy, hdr_key_entities, hdr_key_relationships,
     txt_all_good, txt_entity_line, txt_arrow_line, txt_dash_line, txt_and_line, <<10>>}

InitScenario ==
    /\ revision \in {"route", "part_003"}
    /\ reply \in {Undefined, <<>>}
    /\ written = 0
    /\ scenario = NoResponse
    /\ NormalizerIdle
    /\ ResolverIdle
    /\ DetectorIdle
    /\ EndpointIdle
    /\ UpstreamIdle
    /\ ComponentIdle

\* the model's message grows by one piece
ModelWrites(piece) ==
    /\ scenario = NoResponse
    /\ IsString(reply)
    /\ written < MaxPieces
    /\ reply' = reply \o piece
    /\ written' = written + 1
    /\ UNCHANGED <<revision, scenario, normalizerVars, resolverVars, detectorVars, endpointVars, upstreamVars, componentVars>>

\* scenario/route.ts:68-83 and part_003:72-89: responseContent is the
\* message content or '', it is parsed and the response is returned
AnswerScenario ==
    /\ scenario = NoResponse
    /\ scenario' = IF revision = "route"
                   THEN scenarioResponse(parseScenarioResponse(OrEmpty(reply)), OrEmpty(reply))
                   ELSE scenarioResponseRevised(parseScenarioResponseRevised(OrEmpty(reply)),
                                                OrEmpty(reply))
    /\ UNCHANGED <<revision, reply, written, normalizerVars, resolverVars, detectorVars,
                   endpointVars, upstreamVars, componentVars>>

NextScenario ==
    \/ \E piece \in ReplyPieces : ModelWrites(piece)
    \/ AnswerScenario

SpecScenario == InitScenario /\ [][NextScenario]_vars

----------------------------------------------------------------------------
(* Properties of the scenario endpoint *)

str_all_good == <<97, 108, 108, 32, 103, 111, 111, 100>>  \* 'all good'

\* C19: for every raw model response, the empty string and text with no
\* known header included, the parsing raises no exception and yields all of
\* summary, network_impact, political_outcomes (the placeholder string when
\* the section is missing), key_entities and key_relationships (the empty
\* array when missing) and full_analysis; for 'Summary: all good' the summary
\* is 'all good' and every other section is at its placeholder or empty
\* default.
C19_AllSectionsAlwaysPresent ==
    scenario # NoResponse =>
        /\ scenario.status = 200
        /\ {"summary", "network_impact", "political_outcomes", "key_entities",
            "key_relationships", "full_analysis"} \subseteq DOMAIN scenario
        /\ scenario.full_analysis = OrEmpty(reply)
        /\ IsString(scenario.summary) /\ scenario.summary # <<>>
        /\ IsString(scenario.network_impact) /\ scenario.network_impact # <<>>
        /\ IsString(scenario.political_outcomes) /\ scenario.political_outcomes # <<>>
        /\ ~includes(OrEmpty(reply), hdr_summary) => scenario.summary = msg_no_summary
        /\ ~includes(OrEmpty(reply), hdr_network_impact)
               => scenario.network_impact = msg_no_network_impact
        /\ ~includes(OrEmpty(reply), hdr_political_outcomes)
               => scenario.political_outcomes = msg_no_political_outcomes
        /\ ~includes(OrEmpty(reply), hdr_key_entities) => scenario.key_entities = <<>>
        /\ ~includes(OrEmpty(reply), hdr_key_relationships)
               => scenario.key_relationships = <<>>
        /\ reply = hdr_summary \o txt_all_good =>
               /\ scenario.summary = str_all_good
               /\ scenario.network_impact = msg_no_network_impact
               /\ scenario.political_outcomes = msg_no_political_outcomes
               /\ scenario.key_entities = <<>>
               /\ scenario.key_relationships = <<>>

C19_Witness ==
    /\ scenario # NoResponse
    /\ reply = hdr_summary \o txt_all_good
    /\ scenario.summary = str_all_good

----------------------------------------------------------------------------
(* The hub when no real relationship survives, utils.ts:446-476 *)

\* C22: when no relationship survives normalization and the materialized
\* entity set is not empty, the hub is the first entity in insertion order of
\* the materialized entity map, and the relationships of the output are
\* exactly one fallback edge from that hub to every other materialized entity
\* (n-1 edges for n entities).
C22_FirstEntityIsTheHub ==
    (Returned /\ RealOf(out) = {} /\ Len(out.entities) > 0) =>
        /\ hub = out.entities[1].name
        /\ Len(out.relationships) = Len(out.entities) - 1
        /\ \A j \in 2..Len(out.entities) :
               Cardinality({i \in 1..Len(out.relationships) :
                               out.relationships[i] =
                                   FallbackEdge(out.entities[1].name, out.entities[j].name)}) = 1

\* C28: no entity of the output of normalizeNetworkData has the empty string
\* as its name, for every input, raw entities whose name is only white space
\* included: such a record is treated like a record with an empty name.
C28_NoEmptyEntityName ==
    Returned =>
        /\ \A i \in 1..Len(out.entities) : out.entities[i].name # <<>>
        /\ \A i \in 1..Len(entities) :
               (Truthy(Field(entities[i], "name")) /\ lowerTrim(entities[i].name) = <<>>) =>
                   out = normalizeNetworkData(Without(entities, i), relationships, englishOnly)

----------------------------------------------------------------------------
(* The relationship list of the output, utils.ts:383-416 and 457-486 *)

\* a raw relationship whose source and target are non-empty strings
HasSourceAndTarget(r) == Truthy(Field(r, "source")) /\ Truthy(Field(r, "target"))

\* a raw relationship whose source and target are non-empty once lowercased
\* and trimmed
HasUsableSourceAndTarget(r) ==
    /\ Truthy(lowerTrim(OrEmpty(Field(r, "source"))))
    /\ Truthy(lowerTrim(OrEmpty(Field(r, "target"))))

\* the k-th relationship of the output is the raw relationship r with source
\* and target rewritten to the names the call's name map gives them, and with
\* source_original and target_original added
IsRewritten(o, k, r) ==
    /\ k <= Len(o.relationships)
    /\ ~IsFallback(o.relationships[k])
    /\ DOMAIN o.relationships[k] =
           DOMAIN r \cup {"source", "target", "source_original", "target_original"}
    /\ o.relationships[k].source_original = lowerTrim(r.source)
    /\ o.relationships[k].target_original = lowerTrim(r.target)
    /\ o.relationships[k].source =
           MapGet(nameMapping(entities, relationships).entityMap, lowerTrim(r.source))
    /\ o.relationships[k].target =
           MapGet(nameMapping(entities, relationships).entityMap, lowerTrim(r.target))
    /\ {o.relationships[k].source, o.relationships[k].target} \subseteq EntityNames(o)
    /\ \A f \in DOMAIN r \ {"source", "target", "source_original", "target_original"} :
           o.relationships[k][f] = r[f]

\* the position of the entity named n in the entity list of o
EntityPosition(o, n) == CHOOSE j \in 1..Len(o.entities) : o.entities[j].name = n

\* all fallback relationships come after all real ones, in the order their
\* targets have in the entity list
FallbacksLastInEntityOrder(o) ==
    /\ \A i \in RealOf(o) : \A j \in FallbackOf(o) : i < j
    /\ \A i, j \in FallbackOf(o) :
           i < j => EntityPosition(o, o.relationships[i].target)
                        < EntityPosition(o, o.relationships[j].target)

----------------------------------------------------------------------------
(* original_names, utils.ts:320-380 *)

\* the surface form n is held by the original_names of the entity of o named c
HoldsSurfaceForm(o, c, n) ==
    \E j \in 1..Len(o.entities) :
        /\ o.entities[j].name = c
        /\ \E k \in 1..Len(o.entities[j].original_names) :
               o.entities[j].original_names[k] = n

NoDuplicateOriginalNames(o) ==
    \A j \in 1..Len(o.entities) :
        \A k, l \in 1..Len(o.entities[j].original_names) :
            o.entities[j].original_names[k] = o.entities[j].original_names[l] => k = l

\* the surface forms of the raw entity records that survived filtering
EntitySurfaceFormsHeld(o) ==
    \A i \in 1..Len(entities) :
        (/\ Truthy(Field(entities[i], "name"))
         /\ ~(englishOnly /\ ~isLikelyEnglish(lowerTrim(entities[i].name))))
            => HoldsSurfaceForm(o,
                   MapGet(nameMapping(entities, relationships).entityMap,
                          lowerTrim(entities[i].name)),
                   lowerTrim(entities[i].name))

\* the surface forms of the ends of the surviving raw relationships
RelationshipSurfaceFormsHeld(o) ==
    \A i \in RealOf(o) :
        /\ HoldsSurfaceForm(o, o.relationships[i].source, o.relationships[i].source_original)
        /\ HoldsSurfaceForm(o, o.relationships[i].target, o.relationships[i].target_original)

\* C24: for every entity of the output, original_names holds no duplicate and
\* holds every distinct raw surface form (lowercased, trimmed) that survived
\* filtering and was mapped onto the entity's canonical name, whether it came
\* from a raw entity record or from the source or target of a surviving raw
\* relationship.
C24_OriginalNamesHoldEverySurfaceForm ==
    Returned =>
        /\ NoDuplicateOriginalNames(out)
        /\ EntitySurfaceFormsHeld(out)
        /\ RelationshipSurfaceFormsHeld(out)

----------------------------------------------------------------------------
(* Order of the input records, utils.ts:264-342 *)

\* the list with its elements in the order p, a permutation of its indices
Reordered(list, p) == [i \in 1..Len(list) |-> list[p[i]]]

\* every surface form the output records is assigned the canonical name
\* normalizeEntityName gives it
AssignedByNormalizeEntityName(o) ==
    /\ \A j \in 1..Len(o.entities) :
           \A k \in 1..Len(o.entities[j].original_names) :
               o.entities[j].name = normalizeEntityName(o.entities[j].original_names[k])
    /\ \A i \in RealOf(o) :
           /\ o.relationships[i].source = normalizeEntityName(o.relationships[i].source_original)
           /\ o.relationships[i].target = normalizeEntityName(o.relationships[i].target_original)

\* C29: the canonical name normalizeNetworkData assigns to a surface form does
\* not depend on the order of the input records: for every input and every
\* permutation of its entity list and of its relationship list the set of
\* output entity names is the same, and each raw surface form is assigned the
\* canonical name normalizeEntityName gives it.
C29_IndependentOfInputOrder ==
    pc = "done" =>
        /\ \A p \in Permutations(1..Len(entities)) :
               \A q \in Permutations(1..Len(relationships)) :
                   EntityNames(normalizeNetworkData(Reordered(entities, p),
                                                    Reordered(relationships, q),
                                                    englishOnly))
                       = EntityNames(out)
        /\ AssignedByNormalizeEntityName(out)

\* the sections parseScenarioResponse extracts from the reply, and the section
\* headers of the revision that parses it
ExtractedSections ==
    IF revision = "route" THEN parseScenarioResponse(OrEmpty(reply))
    ELSE parseScenarioResponseRevised(OrEmpty(reply))

SectionHeaders ==
    IF revision = "route"
    THEN {hdr_summary, hdr_network_impact, hdr_political_outcomes, hdr_key_entities,
          hdr_key_relationships}
    ELSE {hdr_summary, hdr_network_vulnerabilities, hdr_network_impact,
          hdr_political_outcomes, hdr_geopolitical_strategy, hdr_key_entities,
          hdr_key_relationships}

\* the header that opens the section f
HeaderOf(f) ==
    CASE f = "summary" -> hdr_summary
      [] f = "network_vulnerabilities" -> hdr_network_vulnerabilities
      [] f = "network_impact" -> hdr_network_impact
      [] f = "political_outcomes" -> hdr_political_outcomes
      [] f = "geopolitical_strategy" -> hdr_geopolitical_strategy
      [] f = "key_entities" -> hdr_key_entities
      [] f = "key_relationships" -> hdr_key_relationships

\* the reply 'Summary: all good' + 'Political Outcomes:', with no 'Network
\* Impact:'
MissingIntermediateHeader == reply = hdr_summary \o txt_all_good \o hdr_political_outcomes

\* C25: in parseScenarioResponse each extracted section is the text between
\* its own header and the next section header that occurs in the response (or
\* the end of the response): for every response, no extracted section
\* contains the header or the text of another section, also when an
\* intermediate header is missing (a response with 'Summary:' and 'Political
\* Outcomes:' but no 'Network Impact:').
C25_SectionsEndAtTheNextHeader ==
    scenario # NoResponse =>
        /\ \A f \in DOMAIN ExtractedSections :
               \A h \in SectionHeaders \ {HeaderOf(f)} : ~includes(ExtractedSections[f], h)
        /\ MissingIntermediateHeader => ExtractedSections.summary = str_all_good

str_closer == <<99, 108, 111, 115, 101, 114>>  \* 'closer'
str_colder == <<99, 111, 108, 100, 101, 114>>  \* 'colder'

\* the reply is the header 'Key Relationships Affected:' followed by one line
RelationshipsSectionIs(line) == reply = hdr_key_relationships \o line

\* C26: in parseKeyRelationships every non-blank line of the form '<source>
\* and <target>: <change>' (no arrow, no hyphen), for any non-empty source
\* name, yields the record {source, target, change} with the whole source
\* name; likewise for the arrow and the hyphen; a line that matches none of
\* the three patterns yields no record.
C26_RelationshipLinesKeepTheSource ==
    scenario # NoResponse =>
        /\ RelationshipsSectionIs(txt_and_line) =>
               scenario.key_relationships =
                   << [source |-> rawPutin, target |-> rawXi, change |-> str_closer] >>
        /\ RelationshipsSectionIs(txt_arrow_line) =>
               scenario.key_relationships =
                   << [source |-> rawPutin, target |-> rawXi, change |-> str_colder] >>
        /\ RelationshipsSectionIs(txt_dash_line) =>
               scenario.key_relationships =
                   << [source |-> rawPutin, target |-> rawXi, change |-> str_colder] >>
        /\ RelationshipsSectionIs(txt_entity_line) => scenario.key_relationships = <<>>

----------------------------------------------------------------------------
(* extractConnectionsFromSearch, connections/route.ts:154-353, from the     *)
(* parsed answer of the model (extractedData) on.  A relationship object is *)
(* named by its index in extractedData.relationships, so that               *)
(* Array.prototype.includes compares objects and not their contents.        *)

\* rel.strength || 0
strengthOf(rel) == IF "strength" \in DOMAIN rel THEN rel.strength ELSE 0

\* one step of the stable sort of line 233: i goes after every index whose
\* relationship is at least as strong
insertByStrength(rels, sorted, i) ==
    SubSeq(sorted, 1,
           Cardinality({k \in 1..Len(sorted) :
                           strengthOf(rels[sorted[k]]) >= strengthOf(rels[i])}))
    \o <<i>>
    \o SubSeq(sorted,
              Cardinality({k \in 1..Len(sorted) :
                              strengthOf(rels[sorted[k]]) >= strengthOf(rels[i])}) + 1,
              Len(sorted))

\* lines 233-235: [...relationships].sort((a, b) => (b.strength || 0) - (a.strength || 0))
sortedRelationships(rels) ==
    LET sorted[n \in 0..Len(rels)] ==
            IF n = 0 THEN <<>> ELSE insertByStrength(rels, sorted[n - 1], n)
    IN sorted[Len(rels)]

\* lines 216-222: the leader is pushed when no entity has its name
withLeader(ents, leader) ==
    IF \E i \in 1..Len(ents) : toLowerCase(ents[i].name) = lowerTrim(leader)
    THEN ents
    ELSE Append(ents, [name |-> leader, type |-> "politician",
                       role |-> "Main subject of network analysis"])

\* line 246: otherEntity
otherEntity(rel, leader) ==
    IF toLowerCase(rel.source) = lowerTrim(leader) THEN rel.target ELSE rel.source

\* lines 248-256: a direct connection to an entity not yet in the primary set
\* is pushed, and the loop breaks once the count has reached num
addPrimary(st, i, other, num) ==
    IF toLowerCase(other) \in st.primaryEntities THEN st
    ELSE [primaryEntities |-> st.primaryEntities \cup {toLowerCase(other)},
          primaryRelationships |-> Append(st.primaryRelationships, i),
          broken |-> Len(st.primaryRelationships) + 1 >= num]

\* lines 239-259: the body of the loop for the relationship of index i
primaryStep(rels, leader, num, st, i) ==
    IF st.broken THEN st
    ELSE IF \/ toLowerCase(rels[i].source) = lowerTrim(leader)
            \/ toLowerCase(rels[i].target) = lowerTrim(leader)
         THEN addPrimary(st, i, otherEntity(rels[i], leader), num)
         ELSE st

\* LAYER 1, lines 226-259
primaryLayerOver(rels, leader, num, sorted) ==
    LET layer[n \in 0..Len(sorted)] ==
            IF n = 0 THEN [primaryEntities |-> {lowerTrim(leader)},
                           primaryRelationships |-> <<>>, broken |-> FALSE]
            ELSE primaryStep(rels, leader, num, layer[n - 1], sorted[n])
    IN layer[Len(sorted)]

primaryLayer(rels, leader, num) ==
    primaryLayerOver(rels, leader, num, sortedRelationships(rels))

InSeq(list, x) == \E k \in 1..Len(list) : list[k] = x

\* lines 266-277: one relationship of LAYER 2
secondaryStep(rels, p, secondary, i) ==
    IF InSeq(p.primaryRelationships, i) THEN secondary
    ELSE IF /\ toLowerCase(rels[i].source) \in p.primaryEntities
            /\ toLowerCase(rels[i].target) \in p.primaryEntities
         THEN Append(secondary, i)
         ELSE secondary

\* LAYER 2, lines 264-277
secondaryLayer(rels, p) ==
    LET layer[n \in 0..Len(rels)] ==
            IF n = 0 THEN <<>> ELSE secondaryStep(rels, p, layer[n - 1], n)
    IN layer[Len(rels)]

\* lines 285-298: one relationship of LAYER 3
tertiaryStep(rels, p, secondary, tertiary, i) ==
    IF InSeq(p.primaryRelationships, i) \/ InSeq(secondary, i) THEN tertiary
    ELSE IF \/ toLowerCase(rels[i].source) \in p.primaryEntities
            \/ toLowerCase(rels[i].target) \in p.primaryEntities
         THEN Append(tertiary, i)
         ELSE tertiary

\* LAYER 3, lines 282-298
tertiaryLayer(rels, p, secondary) ==
    LET layer[n \in 0..Len(rels)] ==
            IF n = 0 THEN <<>> ELSE tertiaryStep(rels, p, secondary, layer[n - 1], n)
    IN layer[Len(rels)]

\* lines 313-320 and 322-329: an entity for a name that is not known yet
addNewEntity(st, entityName) ==
    IF toLowerCase(entityName) \in st.knownEntities THEN st
    ELSE [knownEntities |-> st.knownEntities \cup {toLowerCase(entityName)},
          newEntities |-> Append(st.newEntities,
                                 [name |-> entityName, type |-> "person",
                                  role |-> "Connection"])]

\* lines 306-330
newEntitiesFor(ents, combined) ==
    LET added[n \in 0..Len(combined)] ==
            IF n = 0 THEN [knownEntities |-> {toLowerCase(ents[i].name) : i \in 1..Len(ents)},
                           newEntities |-> <<>>]
            ELSE addNewEntity(addNewEntity(added[n - 1], combined[n].source),
                              combined[n].target)
    IN added[Len(combined)].newEntities

\* lines 303 and 335-347: the value returned, with the primary layer
layeredData(ents, rels, p, combined) ==
    [entities |-> ents \o newEntitiesFor(ents, [k \in 1..Len(combined) |-> rels[combined[k]]]),
     relationships |-> [k \in 1..Len(combined) |-> rels[combined[k]]],
     primary |-> [k \in 1..Len(p.primaryRelationships) |-> rels[p.primaryRelationships[k]]]]

combinedLayers(ents, rels, p, secondary) ==
    layeredData(ents, rels, p,
                p.primaryRelationships \o secondary \o tertiaryLayer(rels, p, secondary))

layersFromPrimary(ents, rels, p) == combinedLayers(ents, rels, p, secondaryLayer(rels, p))

\* lines 214-347, for extractedData = {entities: ents, relationships: rels}
extractConnectionsFromSearch(ents, rels, leader, num) ==
    layersFromPrimary(withLeader(ents, leader), rels, primaryLayer(rels, leader, num))

----------------------------------------------------------------------------
(* The two network endpoints with their upstream calls.  One action per     *)
(* await of the handler: the call settles with an outcome and the handler   *)
(* runs to its next await or to its answer.  calls is the list of the       *)
(* outcomes so far.                                                         *)

MaxArticles == 2
MaxNumConnections == 2
MaxExtracted == 2

\* connections/route.ts:96-102: the number of search queries
SearchQueries == 5

\* connections/route.ts:17-79 begins with the request body; [name]/route.ts
\* takes the name from the path
InitUpstream ==
    /\ route \in {"leader", "connections"}
    /\ leaderName \in (IF route = "connections" THEN {<<>>, rawPutin} ELSE {rawPutin})
    /\ numConnections \in (IF route = "connections" THEN 0..MaxNumConnections ELSE {0})
    /\ englishOnly \in (IF route = "connections" THEN {TRUE} ELSE BOOLEAN)
    /\ entities = <<>>
    /\ relationships = <<>>
    /\ pc = "request"
    /\ out = NoOutput
    /\ hub = <<>>
    /\ response = NoResponse
    /\ shared = {}
    /\ renormalized = NoOutput
    /\ calls = <<>>
    /\ articles = 0
    /\ primary = <<>>
    /\ ResolverIdle
    /\ DetectorIdle
    /\ ScenarioIdle
    /\ ComponentIdle

\* the outcome of an awaited provider call
settled(call, outcome) == [call |-> call, outcome |-> outcome]

\* connections/route.ts:79-85 and [name]/route.ts:44-50: the outer catch
errorResponse == [status |-> 500, error |-> "Error processing"]

\* [name]/route.ts:23-28 and connections/route.ts:31-36
noDataResponse == [status |-> 404, error |-> "No data found for leader"]

\* connections/route.ts:17-24 and [name]/route.ts:17-18
ReceiveRequest ==
    /\ pc = "request"
    /\ IF route = "connections" /\ ~Truthy(leaderName)
       THEN /\ response' = [status |-> 400, error |-> "Leader name is required"]
            /\ pc' = "responded"
       ELSE /\ response' = response
            /\ pc' = IF route = "leader" THEN "news" ELSE "search"
    /\ UNCHANGED <<entities, relationships, englishOnly, out, hub, route, shared,
                   renormalized, resolverVars, detectorVars, scenarioVars, upstreamVars,
                   componentVars>>

\* [name]/route.ts:53-92, fetchLeaderNews: the articles of the answer, none
\* when the request throws or the answer has no articles
fetchLeaderNews(outcome, n) == IF outcome = "ok" THEN n ELSE 0

\* [name]/route.ts:21-28: await getLeaderNetworkData(...)
FetchNews(outcome, n) ==
    /\ pc = "news"
    /\ outcome = "ok" \/ n = 0
    /\ calls' = Append(calls, settled("news", outcome))
    /\ articles' = fetchLeaderNews(outcome, n)
    /\ IF fetchLeaderNews(outcome, n) = 0
       THEN response' = noDataResponse /\ pc' = "responded"
       ELSE response' = response /\ pc' = "analyze"
    /\ UNCHANGED <<entities, relationships, englishOnly, out, hub, route, shared,
                   renormalized, leaderName, numConnections, primary,
                   resolverVars, detectorVars, scenarioVars, componentVars>>

NoAnalysis == [entities |-> <<>>, relationships |-> <<>>]

\* what the extraction of one article may return when it succeeds
ArticleAnalyses ==
    { [entities |-> es, relationships |-> rs] :
        es \in {<<>>} \cup {<<e>> : e \in ExtractedEntities},
        rs \in {<<>>} \cup {<<r>> : r \in ExtractedRelationships} }

\* [name]/route.ts:118-166, extractRelationships, with lines 183 and 190:
\* analysis.relationships || [], analysis.entities || []
extractRelationships(outcome, analysis) ==
    IF outcome = "ok" THEN analysis ELSE NoAnalysis

\* [name]/route.ts:183-187
withRelationshipsOf(rels, analysis) ==
    rels \o [k \in 1..Len(analysis.relationships) |->
                withSourceContext(analysis.relationships[k])]

\* [name]/route.ts:190-192 and 196: a Set of the JSON texts
withEntitiesOf(ents, analysis) ==
    ents \o SelectSeq(analysis.entities, LAMBDA e : ~InSeq(ents, e))

\* [name]/route.ts:176-203: one turn of the loop of analyzeNetworkData, and
\* after the last one the normalization up to the await of line 34
AnalyzeArticleWith(outcome, analysis) ==
    /\ calls' = Append(calls, settled("extraction", outcome))
    /\ articles' = articles - 1
    /\ entities' = withEntitiesOf(entities, analysis)
    /\ relationships' = withRelationshipsOf(relationships, analysis)
    /\ IF articles = 1
       THEN /\ \E run \in {normalizerRun(withEntitiesOf(entities, analysis),
                                         withRelationshipsOf(relationships, analysis),
                                         englishOnly)} :
                   /\ out' = run.result
                   /\ hub' = run.hub
            /\ pc' = "insights"
       ELSE UNCHANGED <<out, hub, pc>>
    /\ UNCHANGED <<englishOnly, route, response, shared, renormalized, leaderName,
                   numConnections, primary, resolverVars, detectorVars, scenarioVars,
                   componentVars>>

AnalyzeArticle(outcome, analysis) ==
    /\ pc = "analyze"
    /\ outcome = "ok" \/ analysis = NoAnalysis
    /\ AnalyzeArticleWith(outcome, extractRelationships(outcome, analysis))

raw_xi == <<120, 105>>  \* 'xi'

\* the entity lists the extraction of the connections may return
ConnectionEntities ==
    { <<>>,
      <<[name |-> rawPutin, type |-> "politician", role |-> "President of Russia"]>> }

\* the relationships the extraction of the connections may return: with the
\* leader at either end, with the same other entity in another case, between
\* two others, without strength
ConnectionRelationships ==
    { [source |-> rawPutin, target |-> rawXi, type |-> "ally",
       sentiment |-> "positive", strength |-> 3],
      [source |-> raw_xi, target |-> rawPutin, type |-> "ally",
       sentiment |-> "positive", strength |-> 5],
      [source |-> rawKim, target |-> rawPutin, type |-> "ally",
       sentiment |-> "positive", strength |-> 4],
      [source |-> rawXi, target |-> rawKim, type |-> "ally",
       sentiment |-> "neutral", strength |-> 2],
      [source |-> rawKim, target |-> rawZelensky, type |-> "opponent",
       sentiment |-> "negative"] }

ConnectionRelationshipLists ==
    UNION {[1..n -> ConnectionRelationships] : n \in 0..MaxExtracted}

\* connections/route.ts:104-149: one query of searchLeaderConnections; a
\* thrown error is logged and thrown again
searchThrows(outcome) == outcome \in {"throws", "no_keys"}

\* connections/route.ts:29-36: await searchLeaderConnections(leader_name),
\* one query at a time; after the last one, not found when nothing was kept
SearchQuery(outcome) ==
    /\ pc = "search"
    /\ calls' = Append(calls, settled("search", outcome))
    /\ articles' = IF outcome = "ok" THEN articles + 1 ELSE articles
    /\ IF searchThrows(outcome)
       THEN response' = errorResponse /\ pc' = "responded"
       ELSE IF Len(calls) + 1 < SearchQueries
            THEN UNCHANGED <<response, pc>>
            ELSE IF articles = 0 /\ outcome # "ok"
                 THEN response' = noDataResponse /\ pc' = "responded"
                 ELSE response' = response /\ pc' = "extract"
    /\ UNCHANGED <<entities, relationships, englishOnly, out, hub, route, shared,
                   renormalized, leaderName, numConnections, primary,
                   resolverVars, detectorVars, scenarioVars, componentVars>>

\* connections/route.ts:39-59 when the extraction returned: the layers, the
\* normalization in English-only mode, not found when no relationship is left
ConnectionsExtracted(outcome, layered) ==
    /\ calls' = Append(calls, settled("extraction", outcome))
    /\ entities' = layered.entities
    /\ relationships' = layered.relationships
    /\ primary' = layered.primary
    /\ \E run \in {normalizerRun(layered.entities, layered.relationships, TRUE)} :
           /\ out' = run.result
           /\ hub' = run.hub
           /\ IF Len(run.result.relationships) = 0
              THEN response' = connectionsResponse(run.result) /\ pc' = "responded"
              ELSE response' = response /\ pc' = "insights"
    /\ UNCHANGED <<englishOnly, route, shared, renormalized, leaderName, numConnections,
                   articles, resolverVars, detectorVars, scenarioVars, componentVars>>

\* connections/route.ts:207-212 and 349-352: no content, a text that is not
\* JSON, an object without entities or relationships, a thrown request: the
\* error is logged and thrown again, and caught at lines 79-85
ConnectionsNotExtracted(outcome) ==
    /\ calls' = Append(calls, settled("extraction", outcome))
    /\ response' = errorResponse
    /\ pc' = "responded"
    /\ UNCHANGED <<entities, relationships, englishOnly, out, hub, route, shared,
                   renormalized, leaderName, numConnections, articles, primary,
                   resolverVars, detectorVars, scenarioVars, componentVars>>

\* connections/route.ts:39: await extractConnectionsFromSearch(...)
ExtractConnections(outcome, ents, rels) ==
    /\ pc = "extract"
    /\ IF outcome = "ok"
       THEN ConnectionsExtracted(outcome,
                extractConnectionsFromSearch(ents, rels, leaderName, numConnections))
       ELSE /\ ents = <<>>
            /\ rels = <<>>
            /\ ConnectionsNotExtracted(outcome)

\* [name]/route.ts:206-243, generateNetworkInsights, returns a default when
\* the call fails; connections/route.ts:358-410, generateConnectionInsights,
\* throws
insightsThrow(r, outcome) == r = "connections" /\ outcome # "ok"

\* [name]/route.ts:34-42 and connections/route.ts:62-77
GenerateInsights(outcome) ==
    /\ pc = "insights"
    /\ calls' = Append(calls, settled("insights", outcome))
    /\ response' = IF insightsThrow(route, outcome) THEN errorResponse
                   ELSE IF route = "leader" THEN leaderResponse(out)
                   ELSE connectionsResponse(out)
    /\ pc' = "responded"
    /\ UNCHANGED <<entities, relationships, englishOnly, out, hub, route, shared,
                   renormalized, leaderName, numConnections, articles, primary,
                   resolverVars, detectorVars, scenarioVars, componentVars>>

NextUpstream ==
    \/ ReceiveRequest
    \/ \E outcome \in {"ok", "throws", "no_keys"}, n \in 0..MaxArticles : FetchNews(outcome, n)
    \/ \E outcome \in {"ok", "throws", "not_json", "no_keys"}, analysis \in ArticleAnalyses :
           AnalyzeArticle(outcome, analysis)
    \/ \E outcome \in {"ok", "empty", "throws", "no_keys"} : SearchQuery(outcome)
    \/ \E outcome \in {"ok", "empty", "throws", "not_json", "no_keys"},
          ents \in ConnectionEntities, rels \in ConnectionRelationshipLists :
           ExtractConnections(outcome, ents, rels)
    \/ \E outcome \in {"ok", "empty", "throws", "not_json"} : GenerateInsights(outcome)

SpecUpstream == InitUpstream /\ [][NextUpstream]_vars

----------------------------------------------------------------------------
(* Properties of the endpoints with their upstream calls *)

\* the extraction of the connections returned and the layers were built
LayersBuilt ==
    /\ route = "connections"
    /\ \E k \in 1..Len(calls) : calls[k] = settled("extraction", "ok")

TouchesLeader(rel) ==
    \/ toLowerCase(rel.source) = lowerTrim(leaderName)
    \/ toLowerCase(rel.target) = lowerTrim(leaderName)

OtherEnd(rel) == toLowerCase(otherEntity(rel, leaderName))

PrimaryTouchesLeader == \A k \in 1..Len(primary) : TouchesLeader(primary[k])

PrimaryOthersDistinct ==
    \A j, k \in 1..Len(primary) : j # k => OtherEnd(primary[j]) # OtherEnd(primary[k])

\* a direct relationship left out of the primary layer is no stronger than
\* the primary one with the same other entity, or than every primary one
PrimaryAreStrongest ==
    \A i \in 1..Len(relationships) :
        (TouchesLeader(relationships[i]) /\ ~InSeq(primary, relationships[i])) =>
            \/ \E k \in 1..Len(primary) :
                   /\ OtherEnd(primary[k]) = OtherEnd(relationships[i])
                   /\ strengthOf(primary[k]) >= strengthOf(relationships[i])
            \/ \A k \in 1..Len(primary) :
                   strengthOf(primary[k]) >= strengthOf(relationships[i])

\* C27: in extractConnectionsFromSearch, for every extracted relationship
\* list and every requested numConnections, 0 included, the primary layer
\* holds at most numConnections relationships, each has the leader as source
\* or target, no two of them connect the leader to the same other entity
\* (names compared lowercased), and they are the strongest such
\* relationships by strength.
C27_PrimaryLayerWithinNumConnections ==
    LayersBuilt =>
        /\ Len(primary) <= numConnections
        /\ PrimaryTouchesLeader
        /\ PrimaryOthersDistinct
        /\ PrimaryAreStrongest

UpstreamFailed ==
    \E k \in 1..Len(calls) : calls[k].outcome \in {"throws", "not_json", "no_keys"}

\* C21: in both network endpoints a failure of an upstream provider call (a
\* thrown transport error, an answer that is not JSON or lacks its keys) is
\* caught at that call and ends in a 'no data found' response or a sparse
\* graph; the endpoint never answers it with the 500 of its outer catch.
C21_UpstreamFailureNeverAnswers500 ==
    (pc = "responded" /\ UpstreamFailed) => response.status \in {200, 404}

----------------------------------------------------------------------------
(* The components LeaderAnalysis (leader-analysis.tsx and its revision,     *)
(* part_002) and ScenarioPlanning (scenario-planning.tsx): the text field,  *)
(* the submit button and the handler of its click, analyzeLeader or         *)
(* runScenario.  pc is the await the handler stands at: "fetch",            *)
(* "errorBody" (response.json() of a response that is not OK), "body"       *)
(* (response.json() of an OK response), or "idle" when no call is running.  *)

rawTypedVladimirPutin == <<86, 108, 97, 100, 105, 109, 105, 114, 32, 80, 117, 116, 105, 110>>  \* 'Vladimir Putin'

Components == {"leader-analysis.tsx", "part_002", "scenario-planning.tsx"}

\* what e.target.value may be
FieldValues == {<<>>, rawBlank, rawPutin, rawVladimirPutin, rawTypedVladimirPutin}

\* leader-analysis.tsx:39-45, part_002:40-47, scenario-planning.tsx:18-21
InitComponent ==
    /\ component \in Components
    /\ field = (IF component = "part_002" THEN rawTypedVladimirPutin ELSE <<>>)
    /\ isLoading = FALSE
    /\ error = "null"
    /\ result = "null"
    /\ pc = "idle"
    /\ entities = <<>>
    /\ relationships = <<>>
    /\ englishOnly = FALSE
    /\ out = NoOutput
    /\ hub = <<>>
    /\ ResolverIdle
    /\ DetectorIdle
    /\ EndpointIdle
    /\ ScenarioIdle
    /\ UpstreamIdle

otherThanComponent ==
    <<entities, relationships, englishOnly, out, hub, resolverVars, detectorVars,
      endpointVars, scenarioVars, upstreamVars>>

\* leader-analysis.tsx:167, part_002:246, scenario-planning.tsx:85:
\* disabled={isLoading || !leaderName.trim()}
disabled(loading, value) == loading \/ trim(value) = <<>>

\* leader-analysis.tsx:47-49, part_002:63-65, scenario-planning.tsx:23-25
handleChange(value) ==
    /\ field' = value
    /\ UNCHANGED <<component, isLoading, error, result, pc>>
    /\ UNCHANGED otherThanComponent

\* the catch block alone: the message is set and the flag is left as it is
caught_withoutFinally(loading, message) == [error |-> message, isLoading |-> loading]

\* leader-analysis.tsx:95-101, part_002:142-148, scenario-planning.tsx:60-66:
\* catch (err) { setError(errorMessage) } finally { setIsLoading(false) }
caught(loading, message) == [error |-> message, isLoading |-> FALSE]

\* the handler ends: the state the catch or the finally block leaves
Settle(after) ==
    /\ error' = after.error
    /\ isLoading' = after.isLoading
    /\ pc' = "idle"

\* leader-analysis.tsx:64-72, part_002:89-97, scenario-planning.tsx:27-34:
\* the handler up to its first await; runScenario does not set the error
\* when the field is blank
onClick ==
    /\ pc = "idle"
    /\ ~disabled(isLoading, field)
    /\ IF trim(field) = <<>>
       THEN /\ error' = IF component = "scenario-planning.tsx" THEN error ELSE "Please enter"
            /\ UNCHANGED <<isLoading, pc>>
       ELSE /\ isLoading' = TRUE
            /\ error' = "null"
            /\ pc' = "fetch"
    /\ UNCHANGED <<component, field, result>>
    /\ UNCHANGED otherThanComponent

\* leader-analysis.tsx:75-90, part_002:99-131, scenario-planning.tsx:37-55:
\* await fetch(...) settles
FetchSettles(outcome) ==
    /\ pc = "fetch"
    /\ IF outcome = "throws" THEN Settle(caught(isLoading, "thrown"))
       ELSE /\ pc' = IF outcome = "ok" THEN "body" ELSE "errorBody"
            /\ UNCHANGED <<isLoading, error>>
    /\ UNCHANGED <<component, field, result>>
    /\ UNCHANGED otherThanComponent

\* leader-analysis.tsx:87-90, part_002:128-131, scenario-planning.tsx:52-55:
\* throw new Error(errorData.error || 'Failed to analyze ...')
ErrorBodySettles(outcome) ==
    /\ pc = "errorBody"
    /\ Settle(caught(isLoading, IF outcome = "error" THEN "error of the response"
                                ELSE IF outcome = "no_error" THEN "Failed to analyze"
                                ELSE "thrown"))
    /\ UNCHANGED <<component, field, result>>
    /\ UNCHANGED otherThanComponent

\* leader-analysis.tsx:92-94, part_002:133-134, scenario-planning.tsx:57-58
BodySettles(outcome) ==
    /\ pc = "body"
    /\ IF outcome = "throws"
       THEN Settle(caught(isLoading, "thrown")) /\ result' = result
       ELSE Settle([error |-> error, isLoading |-> FALSE]) /\ result' = "data"
    /\ UNCHANGED <<component, field>>
    /\ UNCHANGED otherThanComponent

NextComponent ==
    \/ \E value \in FieldValues : handleChange(value)
    \/ onClick
    \/ \E outcome \in {"ok", "not_ok", "throws"} : FetchSettles(outcome)
    \/ \E outcome \in {"error", "no_error", "throws"} : ErrorBodySettles(outcome)
    \/ \E outcome \in {"data", "throws"} : BodySettles(outcome)


SpecComponent == InitComponent /\ [][NextComponent]_vars

\* every awaited promise settles: the browser ends a fetch with a response or
\* with an error, and the body of a response is read or fails
Settles ==
    /\ WF_vars(\E outcome \in {"ok", "not_ok", "throws"} : FetchSettles(outcome))
    /\ WF_vars(\E outcome \in {"error", "no_error", "throws"} : ErrorBodySettles(outcome))
    /\ WF_vars(\E outcome \in {"data", "throws"} : BodySettles(outcome))

FairSpecComponent == SpecComponent /\ Settles

----------------------------------------------------------------------------
(* Properties of the components *)

ButtonDisabledWhileLoading == [](isLoading => disabled(isLoading, field))

LoadingEnds == isLoading ~> ~isLoading

ErrorClearedAtStart == [][(~isLoading /\ isLoading') => error' = "null"]_vars

\* C30: in LeaderAnalysis and ScenarioPlanning every started request
\* eventually sets the loading flag back to false, whether the fetch
\* succeeds, returns a response that is not OK or throws; while the flag is
\* true the submit button is disabled; and when a request starts the
\* previous error message is cleared.
C30_LoadingEndsButtonDisabledErrorCleared ==
    /\ LoadingEnds
    /\ ButtonDisabledWhileLoading
    /\ ErrorClearedAtStart

\* a request is in flight after an earlier one ended with a result, its
\* answer is not OK and its body is awaited
C30_Witness ==
    /\ isLoading
    /\ pc = "errorBody"
    /\ result = "data"
    /\ error = "null"
    /\ disabled(isLoading, field)

====
